---- MODULE Spec2Model ----
(***************************************************************************)
(* A model of the trainML SDK's job layer (src/trainml/jobs.py):           *)
(*   - Job.wait_for, the polling state waiter, with Job.refresh;           *)
(*   - _clean_datasets_selection, the dataset reference resolver;          *)
(*   - Jobs.create, the job request builder, and Job.copy;                 *)
(*   - Job.attach with the handler of the subscription, and Job.connect;   *)
(*   - the CLI commands job attach and job connect                         *)
(*     (src/trainml/cli/job/__init__.py).                                  *)
(* Each coroutine is cut at its await points: one action per resumption.   *)
(***************************************************************************)
EXTENDS Integers, Sequences, FiniteSets, TLC

\* ------------------------------------------------------------------------
\* Bounds of the model
\* ------------------------------------------------------------------------

\* wait_for is called with a timeout in -MaxNegTimeout .. MaxTimeout seconds.
MaxTimeout == 11

MaxNegTimeout == 6

\* A request names at most MaxDatasets datasets.
MaxDatasets == 1

\* The remote service holds at most MaxCatalog datasets, the caller's own
\* and the public ones together.
MaxCatalog == 2

\* A copy is called with at most MaxOverrides overriding keywords.
MaxOverrides == 2

\* A job has at most MaxWorkers workers.
MaxWorkers == 2

\* A subscription delivers at most MaxMessages messages.
MaxMessages == 2

\* ------------------------------------------------------------------------
\* Python values
\* ------------------------------------------------------------------------

\* Python's None.
None == "None"

\* dict.get(key): the value, or None when the key is missing.
Get(d, k) == IF k \in DOMAIN d THEN d[k] ELSE None

\* dict.get(key, default).
GetOr(d, k, default) == IF k \in DOMAIN d THEN d[k] ELSE default

\* math.ceil(a / b) for integers a and b > 0.
Ceil(a, b) == -((-a) \div b)

\* ------------------------------------------------------------------------
\* The remote service, as far as a Job sees it
\* ------------------------------------------------------------------------

\* The status strings the remote service reports.
Statuses == {"new", "running", "stopped", "finished", "failed", "archived"}

\* The job types, with the deprecated aliases headless and interactive.
JobTypes == {"notebook", "training", "endpoint", "headless", "interactive"}

\* The response of GET /job/{id} for a job of type t whose status is s.
\* The remote job keeps its identity and type; its status changes freely.
JobResponse(t, s) ==
    [job_uuid |-> "j1", name |-> "job", provider |-> "P", status |-> s,
     type |-> t, workers |-> <<[job_worker_uuid |-> "w1"]>>]

\* The status codes of the ApiError a read may raise; 0 stands for an
\* exception that is not an ApiError (a transport failure).
ErrorCodes == {404, 500, 0}

\* ------------------------------------------------------------------------
\* State
\* ------------------------------------------------------------------------

VARIABLES
    job,          \* the Job object: its snapshot and the fields cut from it
    wpc,          \* wait_for: "idle", "sleeping", "refreshing", "done"
    wstatus,      \* wait_for's status argument
    wtimeout,     \* wait_for's timeout argument
    retry_count,  \* wait_for's local retry_count
    count,        \* wait_for's local count
    wresult,      \* how wait_for ended: what it returned or raised
    warned,       \* DeprecationWarnings emitted by the wait
    sleeps,       \* asyncio.sleep calls completed by the wait
    refreshes,    \* refresh() calls started by the wait
    inflight,     \* refresh() calls started and not yet ended
    observed,     \* the statuses the wait's refreshes returned, in order
    refresh_exc,  \* the status codes of the errors the wait's refreshes raised
    job0,         \* the Job object as it was when wait_for was called
    rpc,          \* _clean_datasets_selection: "call", "done", "again"
    requested_datasets,  \* its parameter: the dataset entries of the request
    provider,     \* its parameter: the provider of the selected GPU type
    my_datasets,  \* the caller's datasets, as fetched
    public_datasets,     \* the public datasets, as fetched
    cleaned,      \* what _clean_datasets_selection returned or raised
    cpc,          \* Jobs.create: "idle", "gather", "post", "done"
    args,         \* its arguments
    tasks,        \* its catalog tasks: "none", "started", "done", "failed"
    payload,      \* the payloads of the POST /job calls it issued, in order
    cresult,      \* how it ended: what it returned or raised
    cwarned,      \* DeprecationWarnings it emitted
    created,      \* the Job objects it built from the responses
    kpc,          \* Job.copy: "idle", "create" (inside Jobs.create), "done"
    copy_kwargs,  \* its keyword arguments
    kresult,      \* how it ended when it raised itself
    fpc,          \* Job.refresh: "idle", "get", "returned", "raised"
    fbefore,      \* the Job object as it was when refresh was called
    fresp,        \* the response of its GET, once it has returned
    apc,          \* Job.attach: "idle", "subscribed", "done"
    worker_numbers,      \* the mapping _get_msg_handler built
    msg_handler,  \* whether attach was given a msg_handler
    attached_workers,    \* the job's workers as they were at the attach
    received,     \* the messages the subscription handed over, in order
    delivered,    \* the dicts msg_handler was called with, in order
    printed,      \* the lines the handler printed, in order
    aresult,      \* how attach ended
    npc,          \* Job.connect: "idle", "starting", "done"
    connections,  \* the Connection objects built, in order
    nresult,      \* how connect ended
    xpc,          \* a CLI command: "idle", "list", "try", "disconnect",
                  \* "except", "done"
    xcommand,     \* the command and its --attach option
    xcalls,       \* the calls it ran on the job found, in order, and the
                  \* error each raised
    xpending,     \* the error its except clause handles
    xresult       \* how the command ended

waitVars ==
    <<job, wpc, wstatus, wtimeout, retry_count, count, wresult, warned,
      sleeps, refreshes, inflight, observed, refresh_exc, job0>>

resolveVars ==
    <<rpc, requested_datasets, provider, my_datasets, public_datasets, cleaned>>

createVars == <<cpc, args, tasks, payload, cresult, cwarned, created>>

copyVars == <<kpc, copy_kwargs, kresult>>

\* The variables of the calls made on a Job besides wait_for.
refreshVars == <<fpc, fbefore, fresp>>

attachVars ==
    <<apc, worker_numbers, msg_handler, attached_workers, received,
      delivered, printed, aresult>>

connectVars == <<npc, connections, nresult>>

\* The variables of a session on a job: its attach and its connect.
sessionVars == <<attachVars, connectVars>>

cliVars == <<xpc, xcommand, xcalls, xpending, xresult>>

otherVars == <<copyVars, refreshVars, sessionVars, cliVars>>

vars == <<waitVars, resolveVars, createVars, otherVars>>

\* ------------------------------------------------------------------------
\* Dataset references and catalogs
\* ------------------------------------------------------------------------

Providers == {"P", "Q"}

\* What a key of a requested dataset entry may hold.
EntryValues(k) ==
    CASE k = "id" -> {"i1"}
      [] k = "dataset_uuid" -> {"u1"}
      [] k = "name" -> {"A"}
      [] k = "type" -> {"existing", "public", "other"}

\* The requested dataset entries: dicts with any of the four keys.
Entries ==
    UNION { {e \in [ks -> {"i1", "u1", "A", "existing", "public", "other"}] :
                \A k \in ks : e[k] \in EntryValues(k)} :
            ks \in SUBSET {"id", "dataset_uuid", "name", "type"} }

\* Sequences over S of length at most n.
SeqUpTo(S, n) == UNION {[1..m -> S] : m \in 0..n}

\* The datasets of a catalog: the one the requests name on either provider,
\* and another one.
DatasetKinds == {<<"A", "P">>, <<"A", "Q">>, <<"B", "P">>}

\* A fetched catalog: Dataset objects, their ids distinct (prefix and place).
Catalog(prefix, kinds) ==
    [i \in DOMAIN kinds |->
        [id |-> <<prefix, i>>, name |-> kinds[i][1], provider |-> kinds[i][2]]]

\* The catalogs the remote service may hold: <<the caller's, the public>>.
Catalogs ==
    { <<Catalog("my", a), Catalog("public", b)>> :
        <<a, b>> \in { ab \in SeqUpTo(DatasetKinds, MaxCatalog)
                              \X SeqUpTo(DatasetKinds, MaxCatalog) :
                         Len(ab[1]) + Len(ab[2]) <= MaxCatalog } }

\* ------------------------------------------------------------------------
\* _clean_datasets_selection
\* ------------------------------------------------------------------------

\* raise SpecificationError(field, message)
SpecificationError(field, message) ==
    [exc |-> "SpecificationError", field |-> field, message |-> message]

\* The filter of the lookup with the provider forgotten.
Selects_AnyProvider(d, dataset, prov) == d.name = Get(dataset, "name")

\* The filter of the lookup: d.name == dataset.get("name") and
\* d.provider == provider.
Selects(d, dataset, prov) ==
    d.name = Get(dataset, "name") /\ d.provider = prov

\* The lookup keeping the last dataset selected, not the first.
FirstSelected_Last(catalog, dataset, prov) ==
    LET found == {i \in DOMAIN catalog : Selects(catalog[i], dataset, prov)}
    IN  IF found = {} THEN <<>>
        ELSE <<catalog[CHOOSE i \in found : \A j \in found : i >= j]>>

\* next((d for d in catalog if ...), None): the first dataset selected, as a
\* sequence of one, or the empty sequence for None.
FirstSelected(catalog, dataset, prov) ==
    LET found == {i \in DOMAIN catalog : Selects(catalog[i], dataset, prov)}
    IN  IF found = {} THEN <<>>
        ELSE <<catalog[CHOOSE i \in found : \A j \in found : i <= j]>>

\* The branch an entry takes, with every type but existing read as public.
Branch_OtherTypeIsPublic(dataset) ==
    IF "id" \in DOMAIN dataset THEN "id"
    ELSE IF "dataset_uuid" \in DOMAIN dataset THEN "dataset_uuid"
    ELSE IF "name" \in DOMAIN dataset
    THEN (IF Get(dataset, "type") = "existing" THEN "existing" ELSE "public")
    ELSE "no_key"

\* The branch an entry takes, with the name tried before the id keys.
Branch_NameFirst(dataset) ==
    IF "name" \in DOMAIN dataset
    THEN (IF Get(dataset, "type") = "existing" THEN "existing"
          ELSE IF Get(dataset, "type") = "public" THEN "public"
          ELSE "bad_type")
    ELSE IF "id" \in DOMAIN dataset THEN "id"
    ELSE IF "dataset_uuid" \in DOMAIN dataset THEN "dataset_uuid"
    ELSE "no_key"

\* The branch an entry takes, with the dataset_uuid key not recognised.
Branch_IdOnly(dataset) ==
    IF "id" \in DOMAIN dataset THEN "id"
    ELSE IF "name" \in DOMAIN dataset
    THEN (IF Get(dataset, "type") = "existing" THEN "existing"
          ELSE IF Get(dataset, "type") = "public" THEN "public"
          ELSE "bad_type")
    ELSE "no_key"

\* The branch of the if/elif chain an entry takes.
Branch(dataset) ==
    IF "id" \in DOMAIN dataset THEN "id"
    ELSE IF "dataset_uuid" \in DOMAIN dataset THEN "dataset_uuid"
    ELSE IF "name" \in DOMAIN dataset
    THEN (IF Get(dataset, "type") = "existing" THEN "existing"
          ELSE IF Get(dataset, "type") = "public" THEN "public"
          ELSE "bad_type")
    ELSE "no_key"

\* One iteration of the loop: the entry appended (a sequence of one) or the
\* error raised (a sequence of one), and the catalog the iteration searched.
CleanOne(dataset, prov, mine, public) ==
    LET b == Branch(dataset)
        catalog == IF b = "existing" THEN mine ELSE public
        selected_dataset == FirstSelected(catalog, dataset, prov)
    IN  CASE b = "id" ->
               [append |-> <<[dataset_uuid |-> Get(dataset, "id"),
                              type |-> Get(dataset, "type")]>>,
                raise |-> <<>>, searched |-> None]
          [] b = "dataset_uuid" ->
               [append |-> <<dataset>>, raise |-> <<>>, searched |-> None]
          [] b \in {"existing", "public"} ->
               IF selected_dataset = <<>>
               THEN [append |-> <<>>,
                     raise |-> <<SpecificationError("datasets", "Not Found")>>,
                     searched |-> b]
               ELSE [append |-> <<[dataset_uuid |-> selected_dataset[1].id,
                                   type |-> Get(dataset, "type")]>>,
                     raise |-> <<>>, searched |-> b]
          [] b = "bad_type" ->
               [append |-> <<>>,
                raise |-> <<SpecificationError("datasets", "type must be in")>>,
                searched |-> None]
          [] b = "no_key" ->
               [append |-> <<>>,
                raise |-> <<SpecificationError("datasets", "id or name")>>,
                searched |-> None]

\* The loop from entry i on, with the local datasets built so far and the
\* catalog each iteration so far searched.
RECURSIVE CleanFrom(_, _, _, _, _, _, _)
CleanFrom(i, datasets, searched, requested, prov, mine, public) ==
    IF i > Len(requested)
    THEN [return |-> <<datasets>>, raise |-> <<>>, datasets |-> datasets,
          searched |-> searched]
    ELSE LET one == CleanOne(requested[i], prov, mine, public)
         IN  IF one.raise # <<>>
             THEN [return |-> <<>>, raise |-> one.raise,
                   datasets |-> datasets,
                   searched |-> Append(searched, one.searched)]
             ELSE CleanFrom(i + 1, datasets \o one.append,
                            Append(searched, one.searched),
                            requested, prov, mine, public)

\* _clean_datasets_selection(requested_datasets, provider, my_datasets,
\* public_datasets): the list returned or the error raised.
clean_datasets_selection(requested, prov, mine, public) ==
    CleanFrom(1, <<>>, <<>>, requested, prov, mine, public)

\* The resolver alone, on every request and every pair of catalogs.
resolve ==
    /\ rpc = "call"
    /\ rpc' = "done"
    /\ cleaned' = clean_datasets_selection(requested_datasets, provider,
                                           my_datasets, public_datasets)
    /\ UNCHANGED <<requested_datasets, provider, my_datasets,
                   public_datasets>>
    /\ UNCHANGED <<waitVars, createVars, otherVars>>

\* The resolver called again by a later create on the data dict the first
\* create overwrote in place (data["datasets"] = datasets): the request is the
\* list the first call returned, the provider and the catalogs are whatever
\* the later create selected and fetched.
resolve_again(prov, mine, public) ==
    /\ rpc = "done"
    /\ cleaned.return # <<>>
    /\ rpc' = "again"
    /\ requested_datasets' = cleaned.return[1]
    /\ provider' = prov
    /\ my_datasets' = mine
    /\ public_datasets' = public
    /\ cleaned' = clean_datasets_selection(cleaned.return[1], prov, mine, public)
    /\ UNCHANGED <<waitVars, createVars, otherVars>>

NotCleaned ==
    [return |-> <<>>, raise |-> <<>>, datasets |-> <<>>, searched |-> <<>>]

ResolveIdle ==
    /\ rpc = "idle"
    /\ requested_datasets = <<>>
    /\ provider = None
    /\ my_datasets = <<>>
    /\ public_datasets = <<>>
    /\ cleaned = NotCleaned

\* ------------------------------------------------------------------------
\* Job
\* ------------------------------------------------------------------------

\* Job.__init__ keeping the name it was first built with.
JobInit_NameKept(kwargs) ==
    [_job |-> kwargs,
     _id |-> GetOr(kwargs, "id", Get(kwargs, "job_uuid")),
     _name |-> "job",
     _provider |-> Get(kwargs, "provider"),
     _status |-> Get(kwargs, "status"),
     _type |-> Get(kwargs, "type"),
     _workers |-> Get(kwargs, "workers")]

\* Job.__init__: every field is cut from the one snapshot kwargs.
JobInit(kwargs) ==
    [_job |-> kwargs,
     _id |-> GetOr(kwargs, "id", Get(kwargs, "job_uuid")),
     _name |-> Get(kwargs, "name"),
     _provider |-> Get(kwargs, "provider"),
     _status |-> Get(kwargs, "status"),
     _type |-> Get(kwargs, "type"),
     _workers |-> Get(kwargs, "workers")]

\* ------------------------------------------------------------------------
\* Job.wait_for
\* ------------------------------------------------------------------------

POLL_INTERVAL == 5

\* valid_statuses with "failed" let through.
valid_statuses_AlsoFailed ==
    {"running", "stopped", "finished", "archived", "failed"}

valid_statuses == {"running", "stopped", "finished", "archived"}

\* The warning's condition with the headless alias forgotten.
WarnsDeprecated_TrainingOnly(j, status) ==
    j._type = "training" /\ status = "stopped"

\* The condition of the deprecation warning.
WarnsDeprecated(j, status) ==
    (j._type = "headless" \/ j._type = "training") /\ status = "stopped"

\* The success rule with the stopped/finished alias open to every job type.
Satisfied_AnyType(j, status) ==
    \/ j._status = status
    \/ status = "finished" /\ j._status = "stopped"

\* The success rule with the stopped/finished alias read in both directions.
Satisfied_BothWays(j, status) ==
    \/ j._status = status
    \/ /\ (j._type = "headless" \/ j._type = "training")
       /\ {status, j._status} = {"finished", "stopped"}

\* The success rule, the same before the loop and after every refresh.
Satisfied(j, status) ==
    \/ j._status = status
    \/ /\ (j._type = "headless" \/ j._type = "training")
       /\ status = "finished"
       /\ j._status = "stopped"

\* The retry budget rounded down instead of up.
RetryCount_Floor(timeout) == timeout \div POLL_INTERVAL

\* retry_count = math.ceil(timeout / POLL_INTERVAL)
RetryCount(timeout) == Ceil(timeout, POLL_INTERVAL)

\* The except clause with the target forgotten: any 404 ends the wait.
GoneIsArchived_AnyTarget(status, code) == code = 404

\* The except clause of the refresh: the error that ends the wait in success.
GoneIsArchived(status, code) == status = "archived" /\ code = 404

\* The failure check skipped while waiting for archived.
JobFailed_NotWhenArchiving(j) == j._status = "failed" /\ wstatus # "archived"

\* The failure check after a refresh that did not satisfy the wait.
JobFailed(j) == j._status = "failed"

NoResult ==
    [kind |-> "none", exc |-> None, value |-> None, arg |-> None, status |-> 0]

\* return / return self
Returned(v) ==
    [kind |-> "return", exc |-> None, value |-> v, arg |-> None, status |-> 0]

\* raise exc(arg)
Raised(exc, arg) ==
    [kind |-> "raise", exc |-> exc, value |-> None, arg |-> arg, status |-> 0]

\* raise e, for the error e a read raised: an ApiError with its status code,
\* or (code 0) an exception of another class.
Reraised(code) ==
    [kind |-> "raise", exc |-> IF code = 0 THEN "Exception" ELSE "ApiError",
     value |-> None, arg |-> None, status |-> code]

\* The head of the while loop with the locals c and rc: another cycle, or
\* the timeout error that names the status.
LoopHead(c, rc, status) ==
    /\ count' = c
    /\ IF c < rc
       THEN wpc' = "sleeping" /\ wresult' = NoResult
       ELSE wpc' = "done" /\ wresult' = Raised("TrainMLException", status)

\* The call, up to the first await.
wait_for(status, timeout) ==
    /\ wpc = "idle"
    /\ UNCHANGED <<resolveVars, createVars, otherVars>>
    /\ wstatus' = status
    /\ wtimeout' = timeout
    /\ job0' = job
    /\ UNCHANGED <<job, sleeps, refreshes, inflight, observed, refresh_exc>>
    /\ IF status \notin valid_statuses
       THEN /\ wpc' = "done"
            /\ wresult' = Raised("SpecificationError", "status")
            /\ UNCHANGED <<warned, retry_count, count>>
       ELSE /\ warned' = IF WarnsDeprecated(job, status)
                         THEN warned + 1 ELSE warned
            /\ IF Satisfied(job, status)
               THEN /\ wpc' = "done"
                    /\ wresult' = Returned(None)
                    /\ UNCHANGED <<retry_count, count>>
               ELSE /\ retry_count' = RetryCount(timeout)
                    /\ LoopHead(0, RetryCount(timeout), status)

\* await asyncio.sleep(POLL_INTERVAL) ends and refresh() issues its GET.
sleep_done ==
    /\ wpc = "sleeping"
    /\ UNCHANGED <<resolveVars, createVars, otherVars>>
    /\ wpc' = "refreshing"
    /\ sleeps' = sleeps + 1
    /\ refreshes' = refreshes + 1
    /\ inflight' = inflight + 1
    /\ UNCHANGED <<job, wstatus, wtimeout, retry_count, count, wresult,
                   warned, observed, refresh_exc, job0>>

\* refresh() returns: the snapshot is replaced, then the wait checks it.
refresh_ok(s) ==
    /\ wpc = "refreshing"
    /\ UNCHANGED <<resolveVars, createVars, otherVars>>
    /\ inflight' = inflight - 1
    /\ job' = JobInit(JobResponse(job._type, s))
    /\ observed' = Append(observed, s)
    /\ UNCHANGED <<wstatus, wtimeout, retry_count, warned, sleeps,
                   refreshes, refresh_exc, job0>>
    /\ IF Satisfied(job', wstatus)
       THEN wpc' = "done" /\ wresult' = Returned("self") /\ count' = count
       ELSE IF JobFailed(job')
       THEN wpc' = "done" /\ wresult' = Raised("JobError", "self")
            /\ count' = count
       ELSE LoopHead(count + 1, retry_count, wstatus)

\* refresh() raises: the GET failed and the snapshot is as it was.
refresh_err(code) ==
    /\ wpc = "refreshing"
    /\ UNCHANGED <<resolveVars, createVars, otherVars>>
    /\ inflight' = inflight - 1
    /\ refresh_exc' = Append(refresh_exc, code)
    /\ wpc' = "done"
    /\ wresult' = IF code # 0 /\ GoneIsArchived(wstatus, code)
                  THEN Returned(None)
                  ELSE Reraised(code)
    /\ UNCHANGED <<job, wstatus, wtimeout, retry_count, count, warned,
                   sleeps, refreshes, observed, job0>>

\* ------------------------------------------------------------------------
\* Jobs.create
\* ------------------------------------------------------------------------

\* The GPU types the remote service lists.
GpuTypes ==
    <<[id |-> "g1", name |-> "GTX 1060", provider |-> "P"],
      [id |-> "g2", name |-> "V100", provider |-> "Q"]>>

\* create starting the tasks of the GPU types and of the caller's datasets
\* only.
TaskNames_NoPublic == {"gpu_type_task", "my_datasets_task"}

\* The three catalog tasks create starts.
TaskNames == {"gpu_type_task", "my_datasets_task", "public_datasets_task"}

\* The entries create is called with: one reference key at most, and a type
\* exactly with a name.
CreateEntries ==
    {e \in Entries :
        /\ Cardinality(DOMAIN e \cap {"id", "dataset_uuid", "name"}) <= 1
        /\ "type" \in DOMAIN e <=> "name" \in DOMAIN e}

\* The data arguments: the empty dict, a dict with a datasets list, a dict
\* with an output and no datasets list.
DataArgs ==
    {<<>>} \cup {[datasets |-> l] : l \in SeqUpTo(CreateEntries, MaxDatasets)}
           \cup {[output_uri |-> "s3://bucket", output_type |-> "aws"]}

\* The arguments of a call: the defaults of the signature, but for the type,
\* the GPU type, the data and the source_job_uuid keyword.
CreateArgs ==
    [name : {"t"},
     type : {"training", "headless"},
     gpu_type : {"GTX 1060", "g2", "K80"},
     gpu_count : {1},
     disk_size : {10},
     worker_count : {1},
     worker_commands : {<<>>},
     environment : {[type |-> "DEEPLEARNING_PY38"]},
     data : DataArgs,
     model : {<<>>},
     vpn : {[net_prefix_type_id |-> 1]},
     source_job_uuid : {None, "j0"}]

\* Calls whose arguments are empty or not, one by one: an empty or a given
\* name, no or one worker, no or one command, an empty or a given
\* environment, data, model and vpn, and source_job_uuid missing, empty or
\* given.
PayloadArgs ==
    [name : {"t", ""},
     type : {"training"},
     gpu_type : {"g1"},
     gpu_count : {1},
     disk_size : {10},
     worker_count : {0, 1},
     worker_commands : {<<>>, <<"python train.py">>},
     environment : {<<>>, [type |-> "DEEPLEARNING_PY38"]},
     data : {<<>>, [datasets |-> <<>>]},
     model : {<<>>, [git_uri |-> "git@github.com:org/repo.git"]},
     vpn : {<<>>, [net_prefix_type_id |-> 1]},
     source_job_uuid : {None, "", "j0"}]

\* The test of the deprecated aliases knowing headless only.
DeprecatedType_HeadlessOnly(type) == type = "headless"

\* A deprecated alias of a job type.
DeprecatedType(type) == type \in {"headless", "interactive"}

\* The selection falling back on the first GPU type listed.
SelectedGpuType_DefaultFirst(gpu_types, gpu_type) ==
    LET found == {i \in DOMAIN gpu_types :
                     gpu_types[i].name = gpu_type \/ gpu_types[i].id = gpu_type}
    IN  IF found = {} THEN <<gpu_types[1]>>
        ELSE <<gpu_types[CHOOSE i \in found : \A j \in found : i <= j]>>

\* next((g for g in gpu_types if g.name == gpu_type or g.id == gpu_type),
\* None): the first GPU type selected, as a sequence of one, or empty.
SelectedGpuType(gpu_types, gpu_type) ==
    LET found == {i \in DOMAIN gpu_types :
                     gpu_types[i].name = gpu_type \/ gpu_types[i].id = gpu_type}
    IN  IF found = {} THEN <<>>
        ELSE <<gpu_types[CHOOSE i \in found : \A j \in found : i <= j]>>

\* The keys of config, in order.
ConfigKeys ==
    <<"name", "type", "resources", "worker_count", "worker_commands",
      "environment", "data", "model", "vpn", "source_job_uuid">>

\* config = dict(...), with the data dict as the resolution left it.
Config(a, gpu, data) ==
    [name |-> a.name,
     type |-> a.type,
     resources |-> [gpu_type_id |-> gpu.id, gpu_count |-> a.gpu_count,
                    disk_size |-> a.disk_size],
     worker_count |-> a.worker_count,
     worker_commands |-> a.worker_commands,
     environment |-> a.environment,
     data |-> data,
     model |-> a.model,
     vpn |-> a.vpn,
     source_job_uuid |-> a.source_job_uuid]

\* bool(v) of the value config holds under key k: a string or None, a
\* number, a list or a dict.
Truthy(k, v) ==
    CASE k \in {"name", "type", "source_job_uuid"} -> v # None /\ v # ""
      [] k = "worker_count" -> v # 0
      [] OTHER -> DOMAIN v # {}

\* The condition keeping worker_commands and model for a copy as well.
InPayload_AlsoForCopy(k, v, source_job_uuid) ==
    Truthy(k, v) \/ k \in {"worker_commands", "model"}

\* The condition of the payload's dict comprehension.
InPayload(k, v, source_job_uuid) ==
    \/ Truthy(k, v)
    \/ /\ k \in {"worker_commands", "model"}
       /\ ~Truthy("source_job_uuid", source_job_uuid)

\* payload = {k: v for k, v in config.items() if ...}
Payload(config, source_job_uuid) ==
    [k \in {ConfigKeys[i] : i \in {j \in DOMAIN ConfigKeys :
                InPayload(ConfigKeys[j], config[ConfigKeys[j]],
                          source_job_uuid)}}
        |-> config[k]]

\* data["datasets"] = datasets
SetDatasets(data, datasets) ==
    [k \in DOMAIN data \cup {"datasets"} |->
        IF k = "datasets" THEN datasets ELSE data[k]]

\* create(**a), up to await asyncio.gather(...): the warning, the three
\* tasks.
CreateCall(a) ==
    /\ cpc = "idle"
    /\ cpc' = "gather"
    /\ args' = a
    /\ cwarned' = IF DeprecatedType(a.type) THEN cwarned + 1 ELSE cwarned
    /\ tasks' = [t \in TaskNames |-> "started"]
    /\ UNCHANGED <<payload, cresult, created>>

\* The call made by the SDK's user.
create(a) ==
    /\ CreateCall(a)
    /\ UNCHANGED <<waitVars, resolveVars, otherVars>>

\* The read of one task returns; what it returned reaches create when
\* gather returns.
fetch_done(t) ==
    /\ cpc = "gather"
    /\ tasks[t] = "started"
    /\ tasks' = [tasks EXCEPT ![t] = "done"]
    /\ UNCHANGED <<cpc, args, payload, cresult, cwarned, created>>
    /\ UNCHANGED <<waitVars, resolveVars, otherVars>>

\* The read of one task raises, and gather raises it into create.
fetch_err(t, code) ==
    /\ cpc = "gather"
    /\ tasks[t] = "started"
    /\ tasks' = [tasks EXCEPT ![t] = "failed"]
    /\ cpc' = "done"
    /\ cresult' = Reraised(code)
    /\ UNCHANGED <<args, payload, cwarned, created>>
    /\ UNCHANGED <<waitVars, resolveVars, otherVars>>

\* create raises exc before any write.
CreateRaises(exc, arg) ==
    /\ cpc' = "done"
    /\ cresult' = Raised(exc, arg)
    /\ UNCHANGED payload

\* The payload is assembled from the data dict and POST /job is issued.
CreatePosts(gpu, data) ==
    /\ cpc' = "post"
    /\ cresult' = NoResult
    /\ payload' = Append(payload,
                         Payload(Config(args, gpu, data), args.source_job_uuid))

\* gather returns what the three reads returned, the lists gpu_types, mine
\* and public: the GPU type and the datasets are resolved, the payload is
\* assembled and the write is issued.
gather_done(gpu_types, mine, public) ==
    /\ cpc = "gather"
    /\ \A t \in TaskNames : tasks[t] = "done"
    /\ my_datasets' = mine
    /\ public_datasets' = public
    /\ UNCHANGED <<args, tasks, cwarned, created>>
    /\ UNCHANGED <<waitVars, otherVars>>
    /\ LET selected_gpu_type == SelectedGpuType(gpu_types, args.gpu_type)
       IN  IF selected_gpu_type = <<>>
           THEN /\ CreateRaises("SpecificationError", "gpu_type")
                /\ UNCHANGED <<rpc, requested_datasets, provider, cleaned>>
           ELSE IF ~Truthy("data", args.data)
           THEN /\ CreatePosts(selected_gpu_type[1], args.data)
                /\ UNCHANGED <<rpc, requested_datasets, provider, cleaned>>
           ELSE IF "datasets" \notin DOMAIN args.data
           THEN \* data.get("datasets") is None: the resolver's loop raises
                /\ CreateRaises("TypeError", "not iterable")
                /\ UNCHANGED <<rpc, requested_datasets, provider, cleaned>>
           ELSE /\ rpc' = "done"
                /\ requested_datasets' = args.data.datasets
                /\ provider' = selected_gpu_type[1].provider
                /\ cleaned' = clean_datasets_selection(
                                  args.data.datasets,
                                  selected_gpu_type[1].provider,
                                  mine, public)
                /\ IF cleaned'.raise # <<>>
                   THEN CreateRaises(cleaned'.raise[1].exc,
                                     cleaned'.raise[1].field)
                   ELSE CreatePosts(selected_gpu_type[1],
                                    SetDatasets(args.data, cleaned'.return[1]))

\* The write returns and the response is wrapped as a Job.
post_ok ==
    /\ cpc = "post"
    /\ cpc' = "done"
    /\ created' = Append(created, JobInit(JobResponse(args.type, "new")))
    /\ cresult' = Returned("job")
    /\ UNCHANGED <<args, tasks, payload, cwarned>>
    /\ UNCHANGED <<waitVars, resolveVars, otherVars>>

\* The write raises.
post_err(code) ==
    /\ cpc = "post"
    /\ cpc' = "done"
    /\ cresult' = Reraised(code)
    /\ UNCHANGED <<args, tasks, payload, cwarned, created>>
    /\ UNCHANGED <<waitVars, resolveVars, otherVars>>

NoArgs == [name |-> None]

CreateIdle ==
    /\ cpc = "idle"
    /\ args = NoArgs
    /\ tasks = [t \in TaskNames |-> "none"]
    /\ payload = <<>>
    /\ cresult = NoResult
    /\ cwarned = 0
    /\ created = <<>>

\* ------------------------------------------------------------------------
\* Job.copy
\* ------------------------------------------------------------------------

\* The response a copied job was built from: it carries the job's resources.
CopyResponse(t) ==
    JobResponse(t, "running")
        @@ [resources |-> [gpu_type_id |-> "g1", gpu_count |-> 1,
                           disk_size |-> 10]]

\* The keywords a caller of copy overrides the source job with.
CopyKeys ==
    {"type", "gpu_type", "gpu_count", "disk_size", "worker_count",
     "worker_commands", "environment", "data", "model", "vpn"}

\* The value a caller gives keyword k.
Override(k) ==
    CASE k = "type" -> "training"
      [] k = "gpu_type" -> "V100"
      [] k = "gpu_count" -> 2
      [] k = "disk_size" -> 20
      [] k = "worker_count" -> 2
      [] k = "worker_commands" -> <<"python train.py">>
      [] k = "environment" -> [type |-> "PYTORCH_PY38"]
      [] k = "data" -> [datasets |-> <<[id |-> "i1", type |-> "existing"]>>,
                        output_uri |-> "s3://bucket", output_type |-> "aws"]
      [] k = "model" -> [git_uri |-> "git@github.com:org/repo.git"]
      [] k = "vpn" -> [net_prefix_type_id |-> 2]

\* The keyword arguments of a copy.
CopyKwargs ==
    {[k \in ks |-> Override(k)] :
        ks \in {s \in SUBSET CopyKeys : Cardinality(s) <= MaxOverrides}}

\* The guard of copy letting training jobs through.
CopyAllowed_AlsoTraining(type) ==
    type \in {"interactive", "notebook", "training"}

\* self.type in ["interactive", "notebook"]
CopyAllowed(type) == type \in {"interactive", "notebook"}

\* bool(v) of the value kwargs holds under k: a number or a string.
KwTruthy(k, v) == IF k \in {"gpu_count", "disk_size"} THEN v # 0 ELSE v # ""

\* kwargs.get(k) or default
OrElse(kw, k, default) ==
    IF k \in DOMAIN kw /\ KwTruthy(k, kw[k]) THEN kw[k] ELSE default

\* kwargs.get(k) for a keyword create tests for truth before any use: a
\* missing keyword gives None, held here as the empty value of the keyword's
\* type, which is as false as None.
KwGet(kw, k) ==
    IF k \in DOMAIN kw THEN kw[k]
    ELSE IF k = "worker_count" THEN 0 ELSE <<>>

\* The arguments copy calls create with: model is not among them, so create
\* takes its default, dict().
CopyArgs(j, name, kw) ==
    [name |-> name,
     type |-> OrElse(kw, "type", j._type),
     gpu_type |-> OrElse(kw, "gpu_type", j._job.resources.gpu_type_id),
     gpu_count |-> OrElse(kw, "gpu_count", j._job.resources.gpu_count),
     disk_size |-> OrElse(kw, "disk_size", j._job.resources.disk_size),
     worker_count |-> KwGet(kw, "worker_count"),
     worker_commands |-> KwGet(kw, "worker_commands"),
     environment |-> KwGet(kw, "environment"),
     data |-> KwGet(kw, "data"),
     model |-> <<>>,
     vpn |-> KwGet(kw, "vpn"),
     source_job_uuid |-> j._id]

\* copy(name, **kw): the guard on the job's type, then the call of create,
\* whose result is copy's own.
copy(name, kw) ==
    /\ kpc = "idle"
    /\ copy_kwargs' = kw
    /\ IF ~CopyAllowed(job._type)
       THEN /\ kpc' = "done"
            /\ kresult' = Raised("SpecificationError", "job")
            /\ UNCHANGED createVars
       ELSE /\ kpc' = "create"
            /\ kresult' = NoResult
            /\ CreateCall(CopyArgs(job, name, kw))
    /\ UNCHANGED <<waitVars, resolveVars, refreshVars, sessionVars, cliVars>>

CopyIdle ==
    /\ kpc = "idle"
    /\ copy_kwargs = <<>>
    /\ kresult = NoResult

\* ------------------------------------------------------------------------
\* Job.refresh, called on its own
\* ------------------------------------------------------------------------

WorkerIds == {"w1", "w2", "w3"}

\* The worker lists of a job: the workers' identifiers are distinct.
WorkerLists ==
    {[i \in DOMAIN ws |-> [job_worker_uuid |-> ws[i]]] :
        ws \in {l \in SeqUpTo(WorkerIds, MaxWorkers) :
                    \A i, j \in DOMAIN l : i # j => l[i] # l[j]}}

\* The responses of GET /job/{id}: the job keeps its identity and type; its
\* name, status and workers change.
RefreshResponses ==
    [job_uuid : {"j1"}, name : {"job", "renamed"}, provider : {"P"},
     status : Statuses, type : {"notebook"}, workers : WorkerLists]

\* refresh() up to its await: GET /job/{self.id} is issued.
refresh_call ==
    /\ fpc # "get"
    /\ fpc' = "get"
    /\ fbefore' = job
    /\ UNCHANGED <<job, fresp>>
    /\ UNCHANGED <<wpc, wstatus, wtimeout, retry_count, count, wresult,
                   warned, sleeps, refreshes, inflight, observed,
                   refresh_exc, job0>>
    /\ UNCHANGED <<resolveVars, createVars, copyVars, sessionVars, cliVars>>

\* The GET returns resp: self.__init__(self.trainml, **resp).
refresh_return(resp) ==
    /\ fpc = "get"
    /\ fpc' = "returned"
    /\ fresp' = resp
    /\ job' = JobInit(resp)
    /\ UNCHANGED fbefore
    /\ UNCHANGED <<wpc, wstatus, wtimeout, retry_count, count, wresult,
                   warned, sleeps, refreshes, inflight, observed,
                   refresh_exc, job0>>
    /\ UNCHANGED <<resolveVars, createVars, copyVars, sessionVars, cliVars>>

\* The GET raises: refresh raises before __init__ is reached.
refresh_raise(code) ==
    /\ fpc = "get"
    /\ fpc' = "raised"
    /\ UNCHANGED <<fbefore, fresp>>
    /\ UNCHANGED <<waitVars, resolveVars, createVars, copyVars, sessionVars,
                   cliVars>>

RefreshIdle ==
    /\ fpc = "idle"
    /\ fbefore = <<>>
    /\ fresp = <<>>

\* ------------------------------------------------------------------------
\* Job.attach and the handler of the subscription
\* ------------------------------------------------------------------------

\* The streams a message may name: a worker's identifier.
Streams == WorkerIds

\* The text of a message: its words, the last one a line break.
MsgText == <<"epoch 1", "\n">>

\* A message of the subscription: msg.data is a JSON object, held as the
\* list of its members.
Message(type, stream) ==
    [data |-> << <<"type", type>>, <<"stream", stream>>, <<"time", 1500>>,
                 <<"msg", MsgText>> >>]

Messages == {Message(t, st) : t \in {"subscription", "status"}, st \in Streams}

\* json.loads of an object: the dict of its members, a later member
\* replacing an earlier one of the same key.
JsonLoads(text) ==
    [k \in {text[i][1] : i \in DOMAIN text} |->
        text[CHOOSE i \in DOMAIN text :
                /\ text[i][1] = k
                /\ \A j \in DOMAIN text : text[j][1] = k => j <= i][2]]

\* The handler's test letting every kind of message through.
IsSubscription_AnyKind(data) == TRUE

\* data.get("type") == "subscription"
IsSubscription(data) == Get(data, "type") = "subscription"

\* The mapping numbering the workers from 0.
WorkerNumbers_ZeroBased(workers) ==
    [u \in {Get(workers[ind + 1], "job_worker_uuid") :
                ind \in 0..(Len(workers) - 1)} |->
        CHOOSE n \in 0..(Len(workers) - 1) :
            /\ Get(workers[n + 1], "job_worker_uuid") = u
            /\ \A m \in 0..(Len(workers) - 1) :
                  Get(workers[m + 1], "job_worker_uuid") = u => m <= n]

\* {w.get("job_worker_uuid"): ind + 1 for ind, w in enumerate(workers)}: a
\* later worker of the same identifier replaces an earlier one.
WorkerNumbers(workers) ==
    [u \in {Get(workers[ind + 1], "job_worker_uuid") :
                ind \in 0..(Len(workers) - 1)} |->
        CHOOSE n \in 1..Len(workers) :
            /\ Get(workers[n], "job_worker_uuid") = u
            /\ \A m \in 1..Len(workers) :
                  Get(workers[m], "job_worker_uuid") = u => m <= n]

\* The number of a captured worker read again from the job's workers as
\* they are now.
WithWorkerNumber_Live(data, numbers) ==
    LET live == WorkerNumbers(job._workers)
        u == Get(data, "stream")
    IN  [k \in DOMAIN data \cup {"worker_number"} |->
            IF k = "worker_number"
            THEN (IF u \in DOMAIN numbers /\ u \in DOMAIN live THEN live[u]
                  ELSE Get(numbers, u))
            ELSE data[k]]

\* data["worker_number"] = worker_numbers.get(data.get("stream"))
WithWorkerNumber(data, numbers) ==
    [k \in DOMAIN data \cup {"worker_number"} |->
        IF k = "worker_number" THEN Get(numbers, Get(data, "stream"))
        ELSE data[k]]

\* str.rstrip(): the text without its trailing white space.
RECURSIVE Rstrip(_)
Rstrip(text) ==
    IF text # <<>> /\ text[Len(text)] \in {"\n", " "}
    THEN Rstrip(SubSeq(text, 1, Len(text) - 1))
    ELSE text

\* The line the handler prints: the time in seconds, the worker's number
\* when the job has more than one worker now, the text.
Line(data, workers) ==
    [timestamp |-> data["time"] \div 1000,
     worker |-> IF Len(workers) > 1 THEN <<data["worker_number"]>> ELSE <<>>,
     text |-> Rstrip(data["msg"])]

\* attach(msg_handler) up to its await: the handler is built, with the
\* mapping of the workers as they are now, and the subscription is made.
attach(h) ==
    /\ apc = "idle"
    /\ apc' = "subscribed"
    /\ worker_numbers' = WorkerNumbers(job._workers)
    /\ msg_handler' = h
    /\ attached_workers' = job._workers
    /\ UNCHANGED <<received, delivered, printed, aresult>>
    /\ UNCHANGED <<waitVars, resolveVars, createVars, copyVars, refreshVars,
                   connectVars, cliVars>>

\* The subscription hands message m to handler(msg).
message(m) ==
    /\ apc = "subscribed"
    /\ Len(received) < MaxMessages
    /\ received' = Append(received, m)
    /\ LET data == JsonLoads(m.data)
       IN  IF IsSubscription(data)
           THEN LET numbered == WithWorkerNumber(data, worker_numbers)
                IN  IF msg_handler
                    THEN /\ delivered' = Append(delivered, numbered)
                         /\ UNCHANGED printed
                    ELSE /\ printed' = Append(printed,
                                              Line(numbered, job._workers))
                         /\ UNCHANGED delivered
           ELSE UNCHANGED <<delivered, printed>>
    /\ UNCHANGED <<apc, worker_numbers, msg_handler, attached_workers,
                   aresult>>
    /\ UNCHANGED <<waitVars, resolveVars, createVars, copyVars, refreshVars,
                   connectVars, cliVars>>

\* The subscription ends and attach returns None.
attach_return ==
    /\ apc = "subscribed"
    /\ apc' = "done"
    /\ aresult' = Returned(None)
    /\ UNCHANGED <<worker_numbers, msg_handler, attached_workers, received,
                   delivered, printed>>
    /\ UNCHANGED <<waitVars, resolveVars, createVars, copyVars, refreshVars,
                   connectVars, cliVars>>

\* The subscription fails and attach raises its error.
attach_raise(code) ==
    /\ apc = "subscribed"
    /\ apc' = "done"
    /\ aresult' = Reraised(code)
    /\ UNCHANGED <<worker_numbers, msg_handler, attached_workers, received,
                   delivered, printed>>
    /\ UNCHANGED <<waitVars, resolveVars, createVars, copyVars, refreshVars,
                   connectVars, cliVars>>

AttachIdle ==
    /\ apc = "idle"
    /\ worker_numbers = <<>>
    /\ msg_handler = FALSE
    /\ attached_workers = <<>>
    /\ received = <<>>
    /\ delivered = <<>>
    /\ printed = <<>>
    /\ aresult = NoResult

\* ------------------------------------------------------------------------
\* Job.connect
\* ------------------------------------------------------------------------

\* Connection(trainml, entity_type="job", id=self.id, entity=self), once
\* start() has been called on it.
Connection(j) == [entity_type |-> "job", id |-> j._id, status |-> "connecting"]

\* connect returning the status the connection had before it started.
ConnectResult_BeforeStart(connection) == Returned("not connected")

\* return connection.status
ConnectResult(connection) == Returned(connection.status)

\* connect() up to its await: the Connection is built and start() called.
connect ==
    /\ npc = "idle"
    /\ npc' = "starting"
    /\ connections' = Append(connections, Connection(job))
    /\ UNCHANGED nresult
    /\ UNCHANGED <<waitVars, resolveVars, createVars, copyVars, refreshVars,
                   attachVars, cliVars>>

\* start() returns, the tunnel up, and connect returns the status.
connect_started ==
    /\ npc = "starting"
    /\ npc' = "done"
    /\ connections' = [connections EXCEPT ![Len(connections)].status =
                                               "connected"]
    /\ nresult' = ConnectResult(connections'[Len(connections)])
    /\ UNCHANGED <<waitVars, resolveVars, createVars, copyVars, refreshVars,
                   attachVars, cliVars>>

\* start() raises, and connect with it.
connect_raise(code) ==
    /\ npc = "starting"
    /\ npc' = "done"
    /\ connections' = [connections EXCEPT ![Len(connections)].status =
                                               "not connected"]
    /\ nresult' = Reraised(code)
    /\ UNCHANGED <<waitVars, resolveVars, createVars, copyVars, refreshVars,
                   attachVars, cliVars>>

ConnectIdle ==
    /\ npc = "idle"
    /\ connections = <<>>
    /\ nresult = NoResult

\* ------------------------------------------------------------------------
\* The CLI commands job attach and job connect (cli/job/__init__.py)
\* ------------------------------------------------------------------------

\* The commands: attach, and connect with --attach or --no-attach.
Commands ==
    {[name |-> "attach", attach |-> TRUE],
     [name |-> "connect", attach |-> TRUE],
     [name |-> "connect", attach |-> FALSE]}

\* A call the command ran to its end: the method, and the error it raised
\* as a sequence of one status code, empty when it returned.
Ran(method, raised) == [method |-> method, raised |-> raised]

\* An error on its way out of the command: the code, and the place in
\* xcalls of the call that raised it.
Error(code, place) == [code |-> code, place |-> place]

NoError == Error(0, 0)

CliReturned(v) == [kind |-> "return", value |-> v, error |-> NoError]

CliRaised(err) == [kind |-> "raise", value |-> None, error |-> err]

\* The methods the try block runs first: attach(), connect(), or both at
\* once.
TryMethods(command) ==
    IF command.name = "attach" THEN <<"attach">>
    ELSE IF command.attach THEN <<"connect", "attach">>
    ELSE <<"connect">>

\* The except clause raising the error of its own disconnect when that one
\* failed.
Propagated_LastError(original, cleanup) ==
    IF cleanup.raised # <<>> THEN Error(cleanup.raised[1], original.place + 1)
    ELSE original

\* The bare raise of the except clause, after the disconnect it tried:
\* the error the clause caught.
Propagated(original, cleanup) == original

\* The command is invoked: jobs.list() is run.
cli_invoke(command) ==
    /\ xpc = "idle"
    /\ xpc' = "list"
    /\ xcommand' = command
    /\ UNCHANGED <<xcalls, xpending, xresult>>
    /\ UNCHANGED <<waitVars, resolveVars, createVars, copyVars, refreshVars,
                   sessionVars>>

\* jobs.list() returns and the job is looked up: not found, the command
\* raises UsageError; found, the try block is entered.
cli_listed(found) ==
    /\ xpc = "list"
    /\ IF found
       THEN xpc' = "try" /\ UNCHANGED xresult
       ELSE xpc' = "done" /\ xresult' = CliRaised(Error(2, 0))
    /\ UNCHANGED <<xcommand, xcalls, xpending>>
    /\ UNCHANGED <<waitVars, resolveVars, createVars, copyVars, refreshVars,
                   sessionVars>>

\* jobs.list() raises, outside the try block.
cli_list_raise(code) ==
    /\ xpc = "list"
    /\ xpc' = "done"
    /\ xresult' = CliRaised(Error(code, 0))
    /\ UNCHANGED <<xcommand, xcalls, xpending>>
    /\ UNCHANGED <<waitVars, resolveVars, createVars, copyVars, refreshVars,
                   sessionVars>>

\* The first run of the try block returns: with --no-attach the command
\* returns connect's status, otherwise it goes on to disconnect().
cli_try_ok ==
    /\ xpc = "try"
    /\ xcalls' = xcalls \o [i \in DOMAIN TryMethods(xcommand) |->
                               Ran(TryMethods(xcommand)[i], <<>>)]
    /\ IF xcommand.name = "connect" /\ ~xcommand.attach
       THEN xpc' = "done" /\ xresult' = CliReturned("connected")
       ELSE xpc' = "disconnect" /\ UNCHANGED xresult
    /\ UNCHANGED <<xcommand, xpending>>
    /\ UNCHANGED <<waitVars, resolveVars, createVars, copyVars, refreshVars,
                   sessionVars>>

\* The first run of the try block raises: method i of it raised code, and
\* the except clause is entered.
cli_try_raise(i, code) ==
    /\ xpc = "try"
    /\ i \in DOMAIN TryMethods(xcommand)
    /\ xcalls' = xcalls \o [k \in DOMAIN TryMethods(xcommand) |->
                               Ran(TryMethods(xcommand)[k],
                                   IF k = i THEN <<code>> ELSE <<>>)]
    /\ xpending' = Error(code, Len(xcalls) + i)
    /\ xpc' = "except"
    /\ UNCHANGED <<xcommand, xresult>>
    /\ UNCHANGED <<waitVars, resolveVars, createVars, copyVars, refreshVars,
                   sessionVars>>

\* return config.trainml.run(found.disconnect()): disconnect returns.
cli_disconnect_ok ==
    /\ xpc = "disconnect"
    /\ xcalls' = Append(xcalls, Ran("disconnect", <<>>))
    /\ xpc' = "done"
    /\ xresult' = CliReturned("not connected")
    /\ UNCHANGED <<xcommand, xpending>>
    /\ UNCHANGED <<waitVars, resolveVars, createVars, copyVars, refreshVars,
                   sessionVars>>

\* The disconnect of the try block raises: the except clause is entered.
cli_disconnect_raise(code) ==
    /\ xpc = "disconnect"
    /\ xcalls' = Append(xcalls, Ran("disconnect", <<code>>))
    /\ xpending' = Error(code, Len(xcalls) + 1)
    /\ xpc' = "except"
    /\ UNCHANGED <<xcommand, xresult>>
    /\ UNCHANGED <<waitVars, resolveVars, createVars, copyVars, refreshVars,
                   sessionVars>>

\* The except clause: disconnect() is tried, its error passed over, and the
\* error caught is raised again. raised is what the disconnect raised.
cli_except(raised) ==
    /\ xpc = "except"
    /\ xcalls' = Append(xcalls, Ran("disconnect", raised))
    /\ xpc' = "done"
    /\ xresult' = CliRaised(Propagated(xpending, Ran("disconnect", raised)))
    /\ UNCHANGED <<xcommand, xpending>>
    /\ UNCHANGED <<waitVars, resolveVars, createVars, copyVars, refreshVars,
                   sessionVars>>

CliIdle ==
    /\ xpc = "idle"
    /\ xcommand = [name |-> None, attach |-> FALSE]
    /\ xcalls = <<>>
    /\ xpending = NoError
    /\ xresult = [kind |-> "none", value |-> None, error |-> NoError]

\* No call besides wait_for, create and the resolver is under way.
OtherIdle ==
    CopyIdle /\ RefreshIdle /\ AttachIdle /\ ConnectIdle /\ CliIdle

\* ------------------------------------------------------------------------
\* The specifications
\* ------------------------------------------------------------------------

Timeouts == (0 - MaxNegTimeout)..MaxTimeout

WaitIdle(j) ==
    /\ job = j
    /\ job0 = j
    /\ wpc = "idle"
    /\ wstatus = None
    /\ wtimeout = 0
    /\ retry_count = 0
    /\ count = 0
    /\ wresult = NoResult
    /\ warned = 0
    /\ sleeps = 0
    /\ refreshes = 0
    /\ inflight = 0
    /\ observed = <<>>
    /\ refresh_exc = <<>>

WaitInit ==
    /\ \E t \in JobTypes, s \in Statuses : WaitIdle(JobInit(JobResponse(t, s)))
    /\ ResolveIdle
    /\ CreateIdle
    /\ OtherIdle

WaitNext ==
    \/ \E status \in Statuses, timeout \in Timeouts : wait_for(status, timeout)
    \/ sleep_done
    \/ \E s \in Statuses : refresh_ok(s)
    \/ \E code \in ErrorCodes : refresh_err(code)

WaitSpec == WaitInit /\ [][WaitNext]_vars

\* The job no wait is running on.
IdleJob == JobInit(JobResponse("notebook", "new"))

CreateInit ==
    /\ WaitIdle(IdleJob)
    /\ ResolveIdle
    /\ CreateIdle
    /\ OtherIdle

CreateNext ==
    \/ \E a \in CreateArgs : create(a)
    \/ \E t \in TaskNames : fetch_done(t)
    \/ \E t \in TaskNames, code \in ErrorCodes : fetch_err(t, code)
    \/ \E c \in Catalogs : gather_done(GpuTypes, c[1], c[2])
    \/ post_ok
    \/ \E code \in ErrorCodes : post_err(code)

CreateSpec == CreateInit /\ [][CreateNext]_vars

\* create, called with arguments empty or not.
PayloadNext ==
    \/ \E a \in PayloadArgs : create(a)
    \/ \E t \in TaskNames : fetch_done(t)
    \/ \E t \in TaskNames, code \in ErrorCodes : fetch_err(t, code)
    \/ \E c \in Catalogs : gather_done(GpuTypes, c[1], c[2])
    \/ post_ok
    \/ \E code \in ErrorCodes : post_err(code)

PayloadSpec == CreateInit /\ [][PayloadNext]_vars

ResolveInit ==
    /\ WaitIdle(IdleJob)
    /\ rpc = "call"
    /\ requested_datasets \in SeqUpTo(Entries, MaxDatasets)
    /\ provider \in Providers
    /\ \E c \in Catalogs : my_datasets = c[1] /\ public_datasets = c[2]
    /\ cleaned = NotCleaned
    /\ CreateIdle
    /\ OtherIdle

ResolveNext == resolve

ResolveSpec == ResolveInit /\ [][ResolveNext]_vars

\* Calls of create that differ in the job type only, the deprecated aliases
\* included.
AliasArgs ==
    [name : {"t"},
     type : JobTypes,
     gpu_type : {"GTX 1060"},
     gpu_count : {1},
     disk_size : {10},
     worker_count : {1},
     worker_commands : {<<>>},
     environment : {[type |-> "DEEPLEARNING_PY38"]},
     data : {<<>>},
     model : {<<>>},
     vpn : {[net_prefix_type_id |-> 1]},
     source_job_uuid : {None}]

\* A job of any type and status, as a read built it.
AliasInit ==
    /\ \E t \in JobTypes, s \in Statuses :
          WaitIdle(JobInit([CopyResponse(t) EXCEPT !.status = s]))
    /\ ResolveIdle
    /\ CreateIdle
    /\ OtherIdle

\* One call by the SDK's user, of wait_for or copy on the job or of create,
\* and the steps of that call.
AliasNext ==
    \/ /\ kpc = "idle"
       /\ cpc = "idle"
       /\ \E status \in Statuses, timeout \in Timeouts : wait_for(status, timeout)
    \/ sleep_done
    \/ \E s \in Statuses : refresh_ok(s)
    \/ \E code \in ErrorCodes : refresh_err(code)
    \/ wpc = "idle" /\ cpc = "idle" /\ copy("copy", <<>>)
    \/ wpc = "idle" /\ kpc = "idle" /\ \E a \in AliasArgs : create(a)
    \/ \E t \in TaskNames : fetch_done(t)
    \/ \E t \in TaskNames, code \in ErrorCodes : fetch_err(t, code)
    \/ \E c \in Catalogs : gather_done(GpuTypes, c[1], c[2])
    \/ post_ok
    \/ \E code \in ErrorCodes : post_err(code)

AliasSpec == AliasInit /\ [][AliasNext]_vars

\* Catalogs that hold the dataset the requests name on both providers.
BothCatalogs ==
    << Catalog("my", << <<"A", "P">>, <<"A", "Q">> >>),
       Catalog("public", << <<"A", "P">>, <<"A", "Q">> >>) >>

\* What the catalogs may hold at the later create: nothing, one dataset, or
\* what they held at the first.
LaterCatalogs ==
    {c \in Catalogs : Len(c[1]) + Len(c[2]) <= 1} \cup {BothCatalogs}

\* The resolver on requests of more than one entry, then on its own result.
ReuseInit ==
    /\ WaitIdle(IdleJob)
    /\ rpc = "call"
    /\ requested_datasets \in SeqUpTo(Entries, MaxDatasets + 1)
    /\ provider \in Providers
    /\ my_datasets = BothCatalogs[1]
    /\ public_datasets = BothCatalogs[2]
    /\ cleaned = NotCleaned
    /\ CreateIdle
    /\ OtherIdle

ReuseNext ==
    \/ resolve
    \/ \E prov \in Providers, c \in LaterCatalogs : resolve_again(prov, c[1], c[2])

ReuseSpec == ReuseInit /\ [][ReuseNext]_vars

CopyInit ==
    /\ \E t \in JobTypes : WaitIdle(JobInit(CopyResponse(t)))
    /\ ResolveIdle
    /\ CreateIdle
    /\ OtherIdle

CopyNext ==
    \/ \E kw \in CopyKwargs : copy("copy", kw)
    \/ \E t \in TaskNames : fetch_done(t)
    \/ \E t \in TaskNames, code \in ErrorCodes : fetch_err(t, code)
    \/ \E c \in Catalogs : gather_done(GpuTypes, c[1], c[2])
    \/ post_ok
    \/ \E code \in ErrorCodes : post_err(code)

CopySpec == CopyInit /\ [][CopyNext]_vars

RefreshInit ==
    /\ WaitIdle(IdleJob)
    /\ ResolveIdle
    /\ CreateIdle
    /\ OtherIdle

RefreshNext ==
    \/ refresh_call
    \/ \E r \in RefreshResponses : refresh_return(r)
    \/ \E code \in ErrorCodes : refresh_raise(code)

RefreshSpec == RefreshInit /\ [][RefreshNext]_vars

\* A session on a job: an attach and a connect, each at its own pace.
AttachInit ==
    /\ \E ws \in WorkerLists :
          WaitIdle(JobInit([JobResponse("notebook", "running")
                               EXCEPT !.workers = ws]))
    /\ ResolveIdle
    /\ CreateIdle
    /\ OtherIdle

AttachNext ==
    \/ \E h \in BOOLEAN : attach(h)
    \/ \E m \in Messages : message(m)
    \/ attach_return
    \/ \E code \in ErrorCodes : attach_raise(code)
    \/ connect
    \/ connect_started
    \/ \E code \in ErrorCodes : connect_raise(code)

AttachSpec == AttachInit /\ [][AttachNext]_vars

\* The responses of GET /job/{id} during a session: the workers change.
WorkersResponses ==
    {[JobResponse("notebook", "running") EXCEPT !.workers = ws] :
        ws \in WorkerLists}

\* An attach on a job that is refreshed once, before or during the
\* subscription.
StreamNext ==
    \/ \E h \in BOOLEAN : attach(h)
    \/ \E m \in Messages : message(m)
    \/ fpc = "idle" /\ refresh_call
    \/ \E r \in WorkersResponses : refresh_return(r)
    \/ \E code \in ErrorCodes : refresh_raise(code)

StreamSpec == AttachInit /\ [][StreamNext]_vars

\* The status codes of the errors a call of the CLI may raise: two
\* ApiErrors, a transport failure, a KeyboardInterrupt.
CliErrorCodes == ErrorCodes \cup {1}

CliInit ==
    /\ WaitIdle(IdleJob)
    /\ ResolveIdle
    /\ CreateIdle
    /\ OtherIdle

CliNext ==
    \/ \E command \in Commands : cli_invoke(command)
    \/ \E found \in BOOLEAN : cli_listed(found)
    \/ \E code \in CliErrorCodes : cli_list_raise(code)
    \/ cli_try_ok
    \/ \E i \in 1..2, code \in CliErrorCodes : cli_try_raise(i, code)
    \/ cli_disconnect_ok
    \/ \E code \in CliErrorCodes : cli_disconnect_raise(code)
    \/ \E raised \in {<<>>} \cup {<<code>> : code \in CliErrorCodes} :
            cli_except(raised)

CliSpec == CliInit /\ [][CliNext]_vars

\* ------------------------------------------------------------------------
\* Properties of Job.wait_for, under WaitSpec
\* ------------------------------------------------------------------------

\* The legal wait targets, as the specification lists them.
LegalTargets == {"running", "stopped", "finished", "archived"}

\* The job types whose stopped status stands for finished.
TrainingTypes == {"training", "headless"}

\* Status s satisfies a wait for target on a job of type t.
Reaches(t, target, s) ==
    \/ s = target
    \/ t \in TrainingTypes /\ target = "finished" /\ s = "stopped"

\* ceil(timeout / 5) cycles, none for a timeout <= 0.
Budget(timeout) == IF timeout <= 0 THEN 0 ELSE (timeout + 4) \div 5

Last(seq) == seq[Len(seq)]

\* C1: wait_for with a target outside {running, stopped, finished, archived}
\* raises SpecificationError on "status" at once: no sleep, no refresh, no
\* warning, and the job snapshot is as it was, whatever the job's status and
\* type and whatever the timeout.
C1_InvalidTargetFailsFast ==
    (wpc # "idle" /\ wstatus \notin LegalTargets) =>
        /\ wpc = "done"
        /\ wresult = Raised("SpecificationError", "status")
        /\ sleeps = 0
        /\ refreshes = 0
        /\ observed = <<>>
        /\ job = job0

C1_Witness ==
    /\ wpc = "done"
    /\ wstatus = "failed"
    /\ job._status = "failed"
    /\ job._type = "training"
    /\ wtimeout > POLL_INTERVAL

\* C2: a wait with a legal target that never observes the target (or its
\* alias) nor failed, and whose refreshes all return, runs exactly
\* ceil(timeout / 5) sleep-then-refresh cycles (none for timeout <= 0) and
\* then raises the timeout error naming the target; the cycles are strictly
\* sequential: a sleep, then one refresh, never two refreshes in flight, and
\* never more cycles than the budget.
C2_TimeoutAfterBudget ==
    /\ inflight \in {0, 1}
    /\ inflight = 1 <=> wpc = "refreshing"
    /\ sleeps = refreshes
    /\ refreshes = Len(observed) + inflight
                   + Len(refresh_exc)
    /\ sleeps <= Budget(wtimeout)
    /\ ( /\ wpc = "done"
         /\ wstatus \in LegalTargets
         /\ refresh_exc = <<>>
         /\ \A s \in {job0._status} \cup {observed[i] : i \in DOMAIN observed} :
                ~Reaches(job0._type, wstatus, s) /\ s # "failed" )
       => /\ wresult = Raised("TrainMLException", wstatus)
          /\ sleeps = Budget(wtimeout)
          /\ Len(observed) = Budget(wtimeout)

C2_Witness ==
    /\ wpc = "done"
    /\ wresult = Raised("TrainMLException", "running")
    /\ wtimeout % POLL_INTERVAL # 0
    /\ Len(observed) >= 2

\* C3 as claimed: whenever the job's status is failed during a wait with a
\* legal target, the wait has ended with JobError carrying the job.
C3_FailedRaisesAtOnce ==
    (wpc # "idle" /\ wstatus \in LegalTargets /\ job._status = "failed") =>
        (wpc = "done" /\ wresult = Raised("JobError", "self"))

\* C3, amended: as soon as a refresh of the wait returns status failed, the
\* wait raises JobError carrying the job (whose status is failed), whatever
\* the legal target: failed is the last status the wait observes, no sleep or
\* refresh follows it, and the wait reports neither success nor the timeout.
\* A job already failed when wait_for is called is not checked before the
\* first cycle.
C3_FailedOnRefreshRaises ==
    /\ \A i \in DOMAIN observed : observed[i] = "failed" => i = Len(observed)
    /\ (observed # <<>> /\ Last(observed) = "failed") =>
        /\ wpc = "done"
        /\ wresult = Raised("JobError", "self")
        /\ job._status = "failed"
        /\ sleeps = Len(observed)
        /\ refreshes = Len(observed)
        /\ inflight = 0

C3_Witness ==
    /\ wpc = "done"
    /\ wstatus = "archived"
    /\ Len(observed) >= 2
    /\ Last(observed) = "failed"
    /\ wresult.exc = "JobError"

\* C4 as claimed: every wait that succeeds returns the job entity, whose
\* status then satisfies the target; it returns nothing only when a refresh
\* found the job gone (404) while waiting for archived.
C4_SuccessReturnsEntity ==
    (wpc = "done" /\ wresult.kind = "return") =>
        \/ /\ wresult.value = "self"
           /\ Reaches(job._type, wstatus, job._status)
        \/ /\ wresult.value = None
           /\ wstatus = "archived"
           /\ refresh_exc = <<404>>

\* C5: a refresh that raises ends the wait there, with no further sleep or
\* refresh: in success with nothing returned when the target is archived and
\* the error is a 404 ApiError, and otherwise with the same error raised out
\* of wait_for.
C5_RefreshErrorEndsWait ==
    (refresh_exc # <<>>) =>
        /\ Len(refresh_exc) = 1
        /\ wpc = "done"
        /\ inflight = 0
        /\ refreshes = Len(observed) + 1
        /\ sleeps = refreshes
        /\ IF wstatus = "archived" /\ refresh_exc[1] = 404
           THEN wresult = Returned(None)
           ELSE /\ wresult.kind = "raise"
                /\ wresult.status = refresh_exc[1]
                /\ wresult.exc = (IF refresh_exc[1] = 0 THEN "Exception"
                                  ELSE "ApiError")

C5_Witness ==
    /\ wpc = "done"
    /\ wstatus = "archived"
    /\ refresh_exc = <<404>>
    /\ Len(observed) >= 1
    /\ wresult = Returned(None)

\* C6: for a training or headless job, a wait for finished succeeds whenever
\* the status observed is stopped: with no sleep and no refresh when the job
\* is stopped at the call, and otherwise at the first refresh that returns
\* stopped, which is the last. For a job of any other type a wait for
\* finished succeeds only with status finished.
C6_StoppedCountsAsFinished ==
    (wpc # "idle" /\ wstatus = "finished") =>
        IF job0._type \in TrainingTypes
        THEN /\ job0._status = "stopped" =>
                    /\ wpc = "done"
                    /\ wresult.kind = "return"
                    /\ sleeps = 0
                    /\ refreshes = 0
             /\ \A i \in DOMAIN observed : observed[i] = "stopped" =>
                    /\ i = Len(observed)
                    /\ wpc = "done"
                    /\ wresult = Returned("self")
                    /\ sleeps = i
                    /\ refreshes = i
        ELSE /\ wresult.kind = "return" => job._status = "finished"
             /\ (IF observed = <<>> THEN job0._status ELSE Last(observed))
                    = "stopped" => wresult.kind # "return"

C6_Witness ==
    /\ wpc = "done"
    /\ wstatus = "finished"
    /\ job0._type = "training"
    /\ job0._status = "running"
    /\ observed = <<"running", "stopped">>
    /\ wresult = Returned("self")

\* C7: a call of wait_for emits exactly one deprecation warning when the
\* target is stopped and the job is a training or headless job, however many
\* cycles the wait runs and however it ends, and none in every other case.
C7_OneDeprecationWarning ==
    (wpc # "idle") =>
        warned = (IF wstatus = "stopped" /\ job0._type \in TrainingTypes
                  THEN 1 ELSE 0)

C7_Witness ==
    /\ wpc = "done"
    /\ warned = 1
    /\ job0._type = "headless"
    /\ Len(observed) >= 2
    /\ wresult.exc = "TrainMLException"

\* C26: the stopped/finished alias runs one way only. For a training or
\* headless job a wait for stopped is never satisfied by status finished: it
\* never returns on a job that is finished at the call and at every refresh,
\* and when its refreshes all return it ends, after the whole budget of
\* ceil(timeout / 5) cycles, with the timeout error naming stopped; whereas a
\* wait for finished that ends on an observation of stopped returns.
C26_AliasIsOneWay ==
    (wpc # "idle" /\ job0._type \in TrainingTypes) =>
        /\ ( /\ wstatus = "stopped"
             /\ job0._status = "finished"
             /\ \A i \in DOMAIN observed : observed[i] = "finished" )
           => /\ wresult.kind # "return"
              /\ (wpc = "done" /\ refresh_exc = <<>>) =>
                    /\ wresult = Raised("TrainMLException", "stopped")
                    /\ sleeps = Budget(wtimeout)
                    /\ refreshes = Budget(wtimeout)
                    /\ Len(observed) = Budget(wtimeout)
        /\ ( /\ wstatus = "finished"
             /\ refresh_exc = <<>>
             /\ (IF observed = <<>> THEN job0._status ELSE Last(observed))
                    = "stopped" )
           => /\ wpc = "done"
              /\ wresult.kind = "return"

C26_Witness ==
    /\ wpc = "done"
    /\ wstatus = "stopped"
    /\ job0._type = "headless"
    /\ job0._status = "finished"
    /\ observed = <<"finished", "finished">>
    /\ wresult = Raised("TrainMLException", "stopped")
    /\ warned = 1

\* ------------------------------------------------------------------------
\* Properties of _clean_datasets_selection, under ResolveSpec
\* ------------------------------------------------------------------------

\* The entry carries an id key or a dataset_uuid key.
HasIdKey(e) == "id" \in DOMAIN e \/ "dataset_uuid" \in DOMAIN e

\* The entry is given by name, with type existing or public.
ByName(e) ==
    /\ ~HasIdKey(e)
    /\ "name" \in DOMAIN e
    /\ "type" \in DOMAIN e
    /\ e["type"] \in {"existing", "public"}

\* The catalog an entry given by name is to be found in.
CatalogOf(e) == IF e["type"] = "existing" THEN my_datasets ELSE public_datasets

\* C9: every requested entry with an id key or a dataset_uuid key is resolved
\* without searching either catalog: an entry with id gives
\* {dataset_uuid: id, type: its type}, an entry with dataset_uuid and no id
\* is passed through unchanged, whatever the catalogs hold and whatever the
\* provider.
C9_IdEntriesNeedNoCatalog ==
    (rpc = "done") =>
        \A i \in DOMAIN requested_datasets :
            (HasIdKey(requested_datasets[i]) /\ i <= Len(cleaned.searched)) =>
                /\ cleaned.searched[i] = None
                /\ i <= Len(cleaned.datasets)
                /\ cleaned.datasets[i] =
                      (IF "id" \in DOMAIN requested_datasets[i]
                       THEN [dataset_uuid |-> requested_datasets[i]["id"],
                             type |-> IF "type" \in DOMAIN requested_datasets[i]
                                      THEN requested_datasets[i]["type"]
                                      ELSE None]
                       ELSE requested_datasets[i])

C9_Witness ==
    /\ rpc = "done"
    /\ requested_datasets = <<[id |-> "i1", name |-> "A", type |-> "existing"]>>
    /\ my_datasets = <<>>
    /\ public_datasets # <<>>
    /\ cleaned.return = << <<[dataset_uuid |-> "i1", type |-> "existing"]>> >>

\* C10: when some requested entry is given by name with type existing
\* (public) and the caller's datasets (the public catalog) hold no dataset of
\* that name on the selected provider, the resolution raises
\* SpecificationError on "datasets": a dataset of that name on another
\* provider, or in the other catalog, is no match.
C10_UnmatchedNameFails ==
    (rpc = "done") =>
        \A i \in DOMAIN requested_datasets :
            ( /\ ByName(requested_datasets[i])
              /\ \A k \in DOMAIN CatalogOf(requested_datasets[i]) :
                    ~ /\ CatalogOf(requested_datasets[i])[k].name
                            = requested_datasets[i]["name"]
                      /\ CatalogOf(requested_datasets[i])[k].provider
                            = provider )
            => /\ cleaned.return = <<>>
               /\ Len(cleaned.raise) = 1
               /\ cleaned.raise[1].exc = "SpecificationError"
               /\ cleaned.raise[1].field = "datasets"

C10_Witness ==
    /\ rpc = "done"
    /\ provider = "P"
    /\ requested_datasets = <<[name |-> "A", type |-> "existing"]>>
    /\ my_datasets = Catalog("my", << <<"A", "Q">> >>)
    /\ public_datasets = Catalog("public", << <<"A", "P">> >>)
    /\ cleaned.raise = <<SpecificationError("datasets", "Not Found")>>

\* The entry matches two of the four shapes or more: it carries more than
\* one of the keys id, dataset_uuid and name.
Ambiguous(e) ==
    Cardinality(DOMAIN e \cap {"id", "dataset_uuid", "name"}) > 1

\* The entry has a name, and a type that is neither existing nor public.
NameOfOtherType(e) ==
    /\ "name" \in DOMAIN e
    /\ ("type" \notin DOMAIN e \/ e["type"] \notin {"existing", "public"})

\* The entry carries none of the keys id, dataset_uuid and name.
NoKey(e) == DOMAIN e \cap {"id", "dataset_uuid", "name"} = {}

\* The resolution raised SpecificationError on "datasets".
RaisedOnDatasets ==
    /\ cleaned.return = <<>>
    /\ Len(cleaned.raise) = 1
    /\ cleaned.raise[1].exc = "SpecificationError"
    /\ cleaned.raise[1].field = "datasets"

\* C17, as claimed: an entry that matches none of the four shapes (no id,
\* dataset_uuid or name; a name with a type outside existing/public) or more
\* than one of them (both id and name, both id and dataset_uuid) makes the
\* resolution raise SpecificationError.
C17_OneShapeOrFail ==
    (rpc = "done") =>
        \A i \in DOMAIN requested_datasets :
            LET e == requested_datasets[i]
            IN  (NoKey(e) \/ NameOfOtherType(e) \/ Ambiguous(e)) =>
                    RaisedOnDatasets

\* C17, amended: an entry is resolved by the first rule that applies, in the
\* order id, dataset_uuid, name. An entry with none of the three keys, or
\* with a name, no id and no dataset_uuid, and a type outside
\* existing/public, makes the resolution raise SpecificationError on
\* "datasets", and no POST /job is issued; an entry matching more than one
\* shape is not refused on that account: with an id it gives
\* {dataset_uuid: id, type}, with a dataset_uuid and no id it is passed
\* through unchanged, so a request whose entries all carry an id or a
\* dataset_uuid raises nothing.
C17_FirstRuleOrFail ==
    (rpc = "done") =>
        /\ \A i \in DOMAIN requested_datasets :
              LET e == requested_datasets[i]
              IN  /\ (NoKey(e) \/ (NameOfOtherType(e) /\ ~HasIdKey(e))) =>
                        RaisedOnDatasets /\ payload = <<>>
                  /\ (Ambiguous(e) /\ i <= Len(cleaned.datasets)) =>
                        cleaned.datasets[i] =
                          (IF "id" \in DOMAIN e
                           THEN [dataset_uuid |-> e["id"],
                                 type |-> IF "type" \in DOMAIN e
                                          THEN e["type"] ELSE None]
                           ELSE e)
        /\ (\A i \in DOMAIN requested_datasets :
                HasIdKey(requested_datasets[i])) =>
              /\ cleaned.raise = <<>>
              /\ cleaned.return # <<>>
              /\ Len(cleaned.return[1]) = Len(requested_datasets)

C17_Witness ==
    /\ rpc = "done"
    /\ requested_datasets =
          <<[id |-> "i1", dataset_uuid |-> "u1", name |-> "A",
             type |-> "other"]>>
    /\ cleaned.raise = <<>>
    /\ cleaned.return = << <<[dataset_uuid |-> "i1", type |-> "other"]>> >>

\* ------------------------------------------------------------------------
\* Properties of the deprecated job types, under AliasSpec
\* ------------------------------------------------------------------------

\* The type a deprecated alias stands for.
Canonical(t) ==
    IF t = "headless" THEN "training"
    ELSE IF t = "interactive" THEN "notebook"
    ELSE t

\* The status the wait saw last: the job's at the call, or the last refresh's.
LastSeen == IF observed = <<>> THEN job0._status ELSE Last(observed)

\* C24: a deprecated alias is handled as the type it stands for, and is sent
\* as it is. (a) create emits one deprecation warning when its type is
\* headless or interactive and none otherwise, and the payload written
\* carries the type as given. (b) wait_for on a headless job does what it
\* does on a training job: one warning exactly when the target is stopped,
\* and, for a legal target with every refresh returning, the wait has
\* returned exactly when the status seen last is the target, or is stopped
\* with target finished on a training or headless job. (c) copy passes its
\* guard exactly when the job is a notebook or an interactive job.
C24_AliasActsAsCanonical ==
    /\ (cpc # "idle") =>
            /\ cwarned = (IF args.type \in {"headless", "interactive"}
                          THEN 1 ELSE 0)
            /\ \A i \in DOMAIN payload : payload[i].type = args.type
            /\ Len(payload) <= 1
    /\ (wpc # "idle") =>
            /\ warned = (IF Canonical(job0._type) = "training"
                            /\ wstatus = "stopped"
                         THEN 1 ELSE 0)
            /\ (wstatus \in LegalTargets /\ refresh_exc = <<>>) =>
                  ( (wpc = "done" /\ wresult.kind = "return")
                    <=> \/ LastSeen = wstatus
                        \/ /\ Canonical(job0._type) = "training"
                           /\ wstatus = "finished"
                           /\ LastSeen = "stopped" )
    /\ \A s \in Statuses, target \in Statuses :
            /\ Satisfied(JobInit(JobResponse("headless", s)), target)
                 = Satisfied(JobInit(JobResponse("training", s)), target)
            /\ WarnsDeprecated(JobInit(JobResponse("headless", s)), target)
                 = WarnsDeprecated(JobInit(JobResponse("training", s)), target)
    /\ (kpc # "idle") =>
            /\ (kpc = "create") <=> (Canonical(job._type) = "notebook")
            /\ (kresult = Raised("SpecificationError", "job"))
                  <=> (Canonical(job._type) # "notebook")
            /\ (kpc = "create") => args.type = job._type
    /\ CopyAllowed("interactive") = CopyAllowed("notebook")

C24_Witness ==
    /\ kpc = "create"
    /\ cpc = "post"
    /\ job._type = "interactive"
    /\ cwarned = 1
    /\ Len(payload) = 1
    /\ payload[1].type = "interactive"
    /\ payload[1].source_job_uuid = job._id

\* ------------------------------------------------------------------------
\* Properties of a resolved list that is resolved again, under ReuseSpec
\* ------------------------------------------------------------------------

\* The second call returned what it was given, searched no catalog and raised
\* nothing.
ResolvedAgainAsIs ==
    /\ cleaned.raise = <<>>
    /\ cleaned.return = <<requested_datasets>>
    /\ Len(cleaned.searched) = Len(requested_datasets)
    /\ \A i \in DOMAIN cleaned.searched : cleaned.searched[i] = None

\* C25 as claimed: a successful resolution returns as many entries as were
\* requested, every one of them a dict of exactly the keys dataset_uuid and
\* type, and resolving the returned list again returns it as it is, without
\* searching a catalog and without error.
C25_ResultIsCanonical ==
    /\ (rpc = "done" /\ cleaned.return # <<>>) =>
            /\ Len(cleaned.return[1]) = Len(requested_datasets)
            /\ \A i \in DOMAIN cleaned.return[1] :
                    DOMAIN cleaned.return[1][i] = {"dataset_uuid", "type"}
    /\ (rpc = "again") => ResolvedAgainAsIs

\* C25, amended: a successful resolution returns as many entries as were
\* requested, in the order of the request: entry i of the result is
\* {dataset_uuid: id, type: type or None} for a request entry with an id key,
\* the request entry itself, whatever keys it has, for one with a
\* dataset_uuid key and no id key, and {dataset_uuid, type} with the id of a
\* dataset of that name and the requested type for an entry given by name.
\* Every result entry has a dataset_uuid key and no id key, so resolving the
\* returned list again returns it as it is, without searching a catalog and
\* without error, whatever the provider and the catalogs then are.
C25_ResolvedListIsFixedPoint ==
    /\ (rpc = "done" /\ cleaned.return # <<>>) =>
            LET result == cleaned.return[1]
            IN  /\ Len(result) = Len(requested_datasets)
                /\ \A i \in DOMAIN result :
                      LET e == requested_datasets[i]
                      IN  /\ "dataset_uuid" \in DOMAIN result[i]
                          /\ "id" \notin DOMAIN result[i]
                          /\ IF "id" \in DOMAIN e
                             THEN result[i] =
                                    [dataset_uuid |-> e["id"],
                                     type |-> IF "type" \in DOMAIN e
                                              THEN e["type"] ELSE None]
                             ELSE IF "dataset_uuid" \in DOMAIN e
                             THEN result[i] = e
                             ELSE /\ ByName(e)
                                  /\ DOMAIN result[i] = {"dataset_uuid", "type"}
                                  /\ result[i]["type"] = e["type"]
                                  /\ \E k \in DOMAIN CatalogOf(e) :
                                        /\ CatalogOf(e)[k].id
                                              = result[i]["dataset_uuid"]
                                        /\ CatalogOf(e)[k].name = e["name"]
    /\ (rpc = "again") => ResolvedAgainAsIs

C25_Witness ==
    /\ rpc = "again"
    /\ requested_datasets =
          << [dataset_uuid |-> "u1"],
             [dataset_uuid |-> <<"public", 1>>, type |-> "public"] >>
    /\ my_datasets = <<>>
    /\ public_datasets = <<>>
    /\ provider = "Q"
    /\ ResolvedAgainAsIs

\* ------------------------------------------------------------------------
\* Properties of Jobs.create, under CreateSpec
\* ------------------------------------------------------------------------

\* gather has returned the three catalogs to create.
Gathered == cpc \in {"post", "done"} /\ \A t \in TaskNames : tasks[t] = "done"

\* No GPU type listed has the requested name or id.
GpuTypeUnknown ==
    \A i \in DOMAIN GpuTypes :
        GpuTypes[i].name # args.gpu_type /\ GpuTypes[i].id # args.gpu_type

\* C8: create issues one POST /job, and no more, when it succeeds, and none
\* at all when the GPU type or the datasets cannot be resolved: the
\* resolution's SpecificationError is raised before any write.
C8_OneWriteAfterResolution ==
    /\ Len(payload) <= 1
    /\ (cpc = "done" /\ cresult.kind = "return") => Len(payload) = 1
    /\ (Gathered /\ GpuTypeUnknown) =>
            /\ cpc = "done"
            /\ cresult = Raised("SpecificationError", "gpu_type")
            /\ payload = <<>>
    /\ (Gathered /\ ~GpuTypeUnknown /\ rpc = "done" /\ cleaned.raise # <<>>) =>
            /\ cpc = "done"
            /\ cresult = Raised("SpecificationError", "datasets")
            /\ payload = <<>>

C8_Witness ==
    /\ cpc = "done"
    /\ args.gpu_type = "g2"
    /\ "datasets" \in DOMAIN args.data
    /\ args.data.datasets = <<[name |-> "A", type |-> "public"]>>
    /\ public_datasets = Catalog("public", << <<"A", "P">>, <<"B", "P">> >>)
    /\ cresult = Raised("SpecificationError", "datasets")
    /\ payload = <<>>

\* The provider of the GPU type the call selects.
GpuProvider ==
    LET i == CHOOSE i \in DOMAIN GpuTypes :
                 /\ GpuTypes[i].name = args.gpu_type \/ GpuTypes[i].id = args.gpu_type
                 /\ \A j \in 1..(i - 1) :
                        GpuTypes[j].name # args.gpu_type /\ GpuTypes[j].id # args.gpu_type
    IN  GpuTypes[i].provider

\* The places of the catalog of entry e holding a dataset of its name on the
\* provider of the selected GPU type.
NamedMatches(e) ==
    {k \in DOMAIN CatalogOf(e) :
        CatalogOf(e)[k].name = e["name"] /\ CatalogOf(e)[k].provider = GpuProvider}

\* The entry is resolved without an error.
Resolvable(e) == HasIdKey(e) \/ (ByName(e) /\ NamedMatches(e) # {})

\* C11: when create is called with an entry {name, type: public} (or
\* existing) and the public catalog (the caller's datasets) holds a dataset of
\* that name on the provider of the selected GPU type, the payload written
\* holds at the place of that entry {dataset_uuid: the id of the first such
\* dataset in catalog order, type: the entry's type}; the write is issued
\* when every entry can be resolved.
C11_FirstNamedMatchResolved ==
    (Gathered /\ ~GpuTypeUnknown /\ "datasets" \in DOMAIN args.data) =>
        /\ (\A i \in DOMAIN args.data.datasets :
                Resolvable(args.data.datasets[i])) => Len(payload) = 1
        /\ \A i \in DOMAIN args.data.datasets :
              LET e == args.data.datasets[i]
              IN  (ByName(e) /\ NamedMatches(e) # {} /\ payload # <<>>) =>
                    LET first == CHOOSE k \in NamedMatches(e) :
                                    \A j \in NamedMatches(e) : k <= j
                    IN  /\ "data" \in DOMAIN payload[1]
                        /\ Len(payload[1].data.datasets)
                              = Len(args.data.datasets)
                        /\ payload[1].data.datasets[i] =
                              [dataset_uuid |-> CatalogOf(e)[first].id,
                               type |-> e["type"]]

C11_Witness ==
    /\ cpc = "post"
    /\ args.gpu_type = "GTX 1060"
    /\ "datasets" \in DOMAIN args.data
    /\ args.data.datasets = <<[name |-> "A", type |-> "public"]>>
    /\ public_datasets = Catalog("public", << <<"A", "P">>, <<"A", "P">> >>)
    /\ Len(payload) = 1
    /\ payload[1].data.datasets =
          <<[dataset_uuid |-> <<"public", 1>>, type |-> "public"]>>

\* C20: create resolves datasets only when data holds a datasets list: called
\* with a data dict that has none (only output_uri and output_type), it
\* skips the resolution, assembles the payload and issues POST /job, and
\* raises no error for the missing list.
C20_NoListSkipsResolution ==
    ( /\ Gathered
      /\ ~GpuTypeUnknown
      /\ DOMAIN args.data # {}
      /\ "datasets" \notin DOMAIN args.data ) =>
        /\ rpc = "idle"
        /\ Len(payload) = 1
        /\ "data" \in DOMAIN payload[1]
        /\ payload[1].data = args.data
        /\ ~(cresult.kind = "raise" /\ cresult.exc = "TypeError")

\* The three reads of a create.
ThreeFetches == {"gpu_type_task", "my_datasets_task", "public_datasets_task"}

\* C23: in create the three reads (GPU types, the caller's datasets, the
\* public datasets) are all started before any is awaited and end in any
\* order; the GPU type and the datasets are resolved and POST /job is issued
\* only when the three have returned, and when one of them raises no write
\* is issued.
C23_FetchesGatheredBeforeWrite ==
    /\ (cpc # "idle") =>
            /\ DOMAIN tasks = ThreeFetches
            /\ \A t \in ThreeFetches : tasks[t] # "none"
    /\ (cpc = "gather") =>
            /\ payload = <<>>
            /\ rpc = "idle"
            /\ cresult = NoResult
            /\ \A t \in DOMAIN tasks : tasks[t] \in {"started", "done"}
    /\ (payload # <<>> \/ rpc = "done"
            \/ (cresult.kind = "raise" /\ cresult.exc = "SpecificationError")) =>
            \A t \in DOMAIN tasks : tasks[t] = "done"
    /\ (\E t \in DOMAIN tasks : tasks[t] = "failed") =>
            /\ cpc = "done"
            /\ cresult.kind = "raise"
            /\ payload = <<>>
            /\ rpc = "idle"
            /\ created = <<>>

\* The read started last has returned, the one started second has raised
\* and the one started first is still under way.
C23_Witness ==
    /\ cpc = "done"
    /\ tasks["gpu_type_task"] = "started"
    /\ tasks["my_datasets_task"] = "failed"
    /\ tasks["public_datasets_task"] = "done"
    /\ cresult = Reraised(500)
    /\ payload = <<>>

\* ------------------------------------------------------------------------
\* Properties of the payload of Jobs.create, under PayloadSpec
\* ------------------------------------------------------------------------

\* The call is a copy: source_job_uuid is set.
SourceSet == args.source_job_uuid # None /\ args.source_job_uuid # ""

\* The value create gave top-level field k is true to Python.
FieldTruthy(k) ==
    CASE k = "name" -> args.name # ""
      [] k = "type" -> args.type # ""
      [] k = "resources" -> TRUE
      [] k = "worker_count" -> args.worker_count # 0
      [] k = "worker_commands" -> Len(args.worker_commands) > 0
      [] k = "source_job_uuid" -> SourceSet
      [] OTHER -> DOMAIN args[k] # {}

TopLevelFields ==
    {"name", "type", "resources", "worker_count", "worker_commands",
     "environment", "data", "model", "vpn", "source_job_uuid"}

\* C18: the payload written holds a top-level field exactly when the
\* field's value is truthy, but for worker_commands and model, which it
\* holds also when they are empty exactly when source_job_uuid is not set: a
\* copy's payload leaves out an empty worker_commands and an empty model, and
\* the payload of a call that is no copy has no source_job_uuid.
C18_PayloadKeepsTruthyFields ==
    (Len(payload) = 1) =>
        /\ DOMAIN payload[1] \subseteq TopLevelFields
        /\ \A k \in TopLevelFields :
              k \in DOMAIN payload[1] <=>
                  \/ FieldTruthy(k)
                  \/ k \in {"worker_commands", "model"} /\ ~SourceSet
        /\ \A k \in DOMAIN payload[1] \ {"resources", "data"} :
              payload[1][k] = args[k]
        /\ SourceSet =>
              /\ args.worker_commands = <<>> =>
                    "worker_commands" \notin DOMAIN payload[1]
              /\ DOMAIN args.model = {} => "model" \notin DOMAIN payload[1]
        /\ ~SourceSet => "source_job_uuid" \notin DOMAIN payload[1]

C18_Witness ==
    /\ Len(payload) = 1
    /\ args.source_job_uuid = "j0"
    /\ args.worker_commands = <<>>
    /\ DOMAIN args.model = {}
    /\ args.worker_count = 0
    /\ DOMAIN payload[1] =
          {"name", "type", "resources", "environment", "data", "vpn",
           "source_job_uuid"}

\* ------------------------------------------------------------------------
\* Properties of Job.copy, under CopySpec
\* ------------------------------------------------------------------------

\* C12: copy called on a job whose type is neither notebook nor interactive
\* (training, endpoint, headless) raises SpecificationError on "job" and
\* makes no remote call: no catalog read is started and no POST /job issued.
C12_NonNotebookCopyRefused ==
    (kpc # "idle" /\ job._type \notin {"notebook", "interactive"}) =>
        /\ kpc = "done"
        /\ kresult = Raised("SpecificationError", "job")
        /\ cpc = "idle"
        /\ \A t \in TaskNames : tasks[t] = "none"
        /\ payload = <<>>
        /\ created = <<>>

C12_Witness ==
    /\ kpc = "done"
    /\ job._type = "endpoint"
    /\ "type" \in DOMAIN copy_kwargs
    /\ kresult = Raised("SpecificationError", "job")
    /\ payload = <<>>

\* C19: copy called on a notebook job calls create with source_job_uuid the
\* source job's id, with gpu_type, gpu_count and disk_size taken from the
\* source job's resources unless overridden, and with every keyword the
\* caller supplied (type, gpu_type, gpu_count, disk_size, worker_count,
\* worker_commands, environment, data, model, vpn) as the argument of that
\* name.
C19_OverridesReachCreate ==
    (kpc = "create") =>
        /\ args.source_job_uuid = job._id
        /\ "gpu_type" \notin DOMAIN copy_kwargs =>
                args.gpu_type = job._job.resources.gpu_type_id
        /\ "gpu_count" \notin DOMAIN copy_kwargs =>
                args.gpu_count = job._job.resources.gpu_count
        /\ "disk_size" \notin DOMAIN copy_kwargs =>
                args.disk_size = job._job.resources.disk_size
        /\ \A k \in DOMAIN copy_kwargs : args[k] = copy_kwargs[k]

\* ------------------------------------------------------------------------
\* Properties of Job.refresh, under RefreshSpec
\* ------------------------------------------------------------------------

\* C14: in every state the fields of a Job (id, name, provider, status, type,
\* workers) are those of its one raw snapshot, the response of a single
\* remote read; a refresh that returned has replaced the snapshot and every
\* field by those of its response, and a refresh that raised has left the
\* snapshot and every field as they were when it was called.
C14_FieldsOfOneSnapshot ==
    /\ job._id = job._job.job_uuid
    /\ job._name = job._job.name
    /\ job._provider = job._job.provider
    /\ job._status = job._job.status
    /\ job._type = job._job.type
    /\ job._workers = job._job.workers
    /\ fpc = "returned" => job._job = fresp
    /\ fpc \in {"get", "raised"} => job = fbefore

C14_Witness ==
    /\ fpc = "returned"
    /\ fbefore._name = "job"
    /\ fbefore._status = "new"
    /\ Len(fbefore._workers) = 1
    /\ job._name = "renamed"
    /\ job._status = "running"
    /\ Len(job._workers) = 2

\* ------------------------------------------------------------------------
\* Properties of Job.attach and Job.connect, under AttachSpec
\* ------------------------------------------------------------------------

\* The member of a message under key k, read off its JSON object.
Member(m, k) ==
    m.data[CHOOSE i \in DOMAIN m.data : m.data[i][1] = k][2]

\* The messages of kind subscription among msgs, in order.
RECURSIVE Subscriptions(_)
Subscriptions(msgs) ==
    IF msgs = <<>> THEN <<>>
    ELSE (IF Member(msgs[1], "type") = "subscription" THEN <<msgs[1]>>
          ELSE <<>>) \o Subscriptions(Tail(msgs))

\* The 1-based places of the worker of identifier u in workers.
PlacesOf(u, workers) ==
    {n \in DOMAIN workers : workers[n].job_worker_uuid = u}

\* C13: after attach on a job whose workers are [w1, ..., wn], every
\* subscription message received whose stream is the job_worker_uuid of the
\* i-th worker reaches msg_handler with worker_number = i (counted from 1);
\* without a msg_handler the line printed for it names worker i when the job
\* has more than one worker.
C13_WorkerNumberIsPlace ==
    LET subs == Subscriptions(received)
    IN  /\ msg_handler =>
            /\ Len(delivered) = Len(subs)
            /\ \A i \in DOMAIN subs :
                  /\ delivered[i].stream = Member(subs[i], "stream")
                  /\ delivered[i].msg = Member(subs[i], "msg")
                  /\ \A n \in PlacesOf(Member(subs[i], "stream"),
                                        attached_workers) :
                        delivered[i].worker_number = n
        /\ (apc # "idle" /\ ~msg_handler) =>
            /\ Len(printed) = Len(subs)
            /\ \A i \in DOMAIN subs :
                  \A n \in PlacesOf(Member(subs[i], "stream"),
                                     attached_workers) :
                      Len(attached_workers) > 1 => printed[i].worker = <<n>>

C13_Witness ==
    /\ apc = "subscribed"
    /\ msg_handler
    /\ attached_workers = <<[job_worker_uuid |-> "w2"],
                            [job_worker_uuid |-> "w1"]>>
    /\ received = <<Message("subscription", "w1"),
                    Message("subscription", "w2")>>
    /\ Len(delivered) = 2
    /\ delivered[1].worker_number = 2
    /\ delivered[2].worker_number = 1

\* C21: what msg_handler is called with is the messages of kind
\* subscription among those received, each once and in the order received,
\* whatever worker each comes from; a message of another kind is never
\* delivered. Without a msg_handler the same holds of the lines printed.
C21_DeliveredAreSubscriptionsInOrder ==
    LET subs == Subscriptions(received)
        out == IF msg_handler THEN delivered ELSE printed
    IN  /\ Len(out) = Len(subs)
        /\ msg_handler => printed = <<>>
        /\ ~msg_handler => delivered = <<>>
        /\ \A i \in DOMAIN delivered :
              /\ delivered[i].type = "subscription"
              /\ delivered[i].stream = Member(subs[i], "stream")
              /\ delivered[i].time = Member(subs[i], "time")
              /\ delivered[i].msg = Member(subs[i], "msg")
              /\ DOMAIN delivered[i] =
                    {"type", "stream", "time", "msg", "worker_number"}

C21_Witness ==
    /\ apc = "subscribed"
    /\ msg_handler
    /\ Len(attached_workers) = 2
    /\ received = <<Message("status", "w1"), Message("subscription", "w2")>>
    /\ Len(delivered) = 1
    /\ delivered[1].stream = "w2"

\* C15: connect() and attach() running at once on one job do not interfere,
\* however their steps interleave: no step of connect changes the job, the
\* captured mapping or what attach delivered; no step of attach changes a
\* Connection or connect's result; connect returns the status of the
\* Connection it built and started; every message delivered carries the
\* worker_number it has from the workers as they were at the attach.
C15_ConnectAndAttachApart ==
    [][ /\ (npc' # npc) => UNCHANGED <<job, attachVars>>
        /\ (apc' # apc \/ received' # received) =>
                UNCHANGED <<job, connectVars>>
        /\ (npc = "starting" /\ npc' = "done" /\ nresult'.kind = "return") =>
                /\ Len(connections') = 1
                /\ nresult'.value = connections'[1].status
                /\ nresult'.value = "connected"
        /\ \A i \in DOMAIN delivered' :
                \A n \in PlacesOf(delivered'[i].stream, attached_workers') :
                    delivered'[i].worker_number = n
      ]_vars

C15_Witness ==
    /\ npc = "starting"
    /\ apc = "subscribed"
    /\ msg_handler
    /\ attached_workers = <<[job_worker_uuid |-> "w3"],
                            [job_worker_uuid |-> "w1"]>>
    /\ Len(delivered) = 1
    /\ delivered[1].stream = "w1"
    /\ delivered[1].worker_number = 2

\* ------------------------------------------------------------------------
\* Properties of the CLI commands job attach and job connect, under CliSpec
\* ------------------------------------------------------------------------

\* The places of xcalls where attach() or connect() raised.
FailedTries ==
    {p \in DOMAIN xcalls :
        xcalls[p].method \in {"attach", "connect"} /\ xcalls[p].raised # <<>>}

\* disconnect() was run after the call at place p.
DisconnectedAfter(p) ==
    \E q \in DOMAIN xcalls : q > p /\ xcalls[q].method = "disconnect"

\* C16: in the CLI commands attach and connect, whenever attach() or
\* connect() raises, disconnect() is run as cleanup before the error leaves
\* the command, and the error that leaves it is the one attach() or
\* connect() raised, also when the cleanup's disconnect() raises itself; when
\* attach, or connect with --attach, runs without an error, disconnect() is
\* run after it.
C16_CleanupKeepsOriginalError ==
    (xpc = "done") =>
        /\ \A p \in FailedTries :
              /\ DisconnectedAfter(p)
              /\ xresult = CliRaised(Error(xcalls[p].raised[1], p))
        /\ (xcalls # <<>> /\ FailedTries = {}
                /\ (xcommand.name = "attach" \/ xcommand.attach)) =>
              /\ xcalls[Len(TryMethods(xcommand))].method = "attach"
              /\ DisconnectedAfter(Len(TryMethods(xcommand)))

C16_Witness ==
    /\ xpc = "done"
    /\ xcommand = [name |-> "connect", attach |-> TRUE]
    /\ xcalls = <<Ran("connect", <<>>), Ran("attach", <<500>>),
                  Ran("disconnect", <<404>>)>>
    /\ xresult = CliRaised(Error(500, 2))

\* ------------------------------------------------------------------------
\* Properties of Job.attach on a job that is refreshed, under StreamSpec
\* ------------------------------------------------------------------------

\* C22: the mapping from a worker's identifier to its number is built once,
\* at the attach: when a refresh() replaces the job's workers afterwards,
\* every message is still numbered by the place its stream's worker had in
\* the list as it was at the attach, and a stream whose worker is not in
\* that list gets no number (None), also when the worker is in the list now.
C22_NumbersCapturedAtAttach ==
    LET subs == Subscriptions(received)
    IN  /\ apc # "idle" => worker_numbers = WorkerNumbers(attached_workers)
        /\ \A i \in DOMAIN delivered :
              LET places == PlacesOf(delivered[i].stream, attached_workers)
              IN  IF places = {} THEN delivered[i].worker_number = None
                  ELSE delivered[i].worker_number \in places
        /\ \A i \in DOMAIN printed :
              LET places == PlacesOf(Member(subs[i], "stream"),
                                     attached_workers)
              IN  printed[i].worker # <<>> =>
                      IF places = {} THEN printed[i].worker = <<None>>
                      ELSE printed[i].worker[1] \in places

\* A line printed with a worker's number by an attach made on a job of one
\* worker: the refresh returned before the message came.
C22_Witness ==
    /\ apc = "subscribed"
    /\ ~msg_handler
    /\ attached_workers = <<[job_worker_uuid |-> "w1"]>>
    /\ job._workers = <<[job_worker_uuid |-> "w3"],
                        [job_worker_uuid |-> "w1"]>>
    /\ received = <<Message("subscription", "w1"),
                    Message("subscription", "w3")>>
    /\ Len(printed) = 2
    /\ printed[1].worker = <<1>>
    /\ printed[2].worker = <<None>>

====
